---------------------------- MODULE Spec2Model ----------------------------
(***************************************************************************)
(* Section Matching & Change Classification Engine                          *)
(* (scripts/compare_sections.py, scripts/semantic_utils.py).                *)
(*                                                                          *)
(* Texts are sequences of one-character strings.  Similarities are floats   *)
(* in the code; here they are fixed-point integers, millionths rounded      *)
(* down (Scale = 1.0).  A local variable of the code that is read more than *)
(* once is a parameter of a helper operator, so that its value is computed  *)
(* once.                                                                    *)
(***************************************************************************)
EXTENDS Integers, Sequences, FiniteSets, TLC

Scale == 1000 * 1000

\* a string as a sequence of characters
Chars(s) == <<>> \o [i \in 1..Len(s) |-> SubSeq(s, i, i)]

Max2(a, b) == IF a >= b THEN a ELSE b
Min2(a, b) == IF a <= b THEN a ELSE b

\* the least and the greatest element of a non-empty set of integers
Least(S) == CHOOSE x \in S : \A y \in S : x <= y
Greatest(S) == CHOOSE x \in S : \A y \in S : x >= y

(***************************************************************************)
(* Characters                                                               *)
(***************************************************************************)
LowerChars == {"a","b","c","d","e","f","g","h","i","j","k","l","m",
               "n","o","p","q","r","s","t","u","v","w","x","y","z"}
UpperChars == {"A","B","C","D","E","F","G","H","I","J","K","L","M",
               "N","O","P","Q","R","S","T","U","V","W","X","Y","Z"}
DigitChars == {"0","1","2","3","4","5","6","7","8","9"}

UpperSeq == Chars("ABCDEFGHIJKLMNOPQRSTUVWXYZ")
LowerSeq == Chars("abcdefghijklmnopqrstuvwxyz")

\* Code-point order of the characters that occur in change ids and
\* section ids (str comparison in Python compares code points).
OrdSeq == Chars(" ,-.0123456789:ABCDEFGHIJKLMNOPQRSTUVWXYZ_abcdefghijklmnopqrstuvwxyz")
Ord(c) == CHOOSE i \in 1..Len(OrdSeq) : OrdSeq[i] = c

IsAlpha(c) == c \in LowerChars \cup UpperChars
IsDigit(c) == c \in DigitChars
IsSpace(c) == c = " "
\* \w of the re module
IsWord(c)  == IsAlpha(c) \/ IsDigit(c) \/ c = "_"

LowerChar(c) ==
    IF c \in UpperChars
    THEN LowerSeq[CHOOSE i \in 1..26 : UpperSeq[i] = c]
    ELSE c

\* str.lower()
Lower(t) == <<>> \o [i \in 1..Len(t) |-> LowerChar(t[i])]

\* the part of t between its first and its last position in ink
Between(t, ink) == IF ink = {} THEN <<>> ELSE SubSeq(t, Least(ink), Greatest(ink))

\* str.strip()
Strip(t) == Between(t, { i \in 1..Len(t) : ~IsSpace(t[i]) })

\* the elements of t at the positions at, in order
TakeAt(t, at) == <<>> \o [i \in 1..Len(at) |-> t[at[i]]]

\* SPACE_RE.sub(" ", t): every maximal run of whitespace becomes one space
\* (a space is kept unless the character before it is a space)
CollapseSpaces(t) ==
    TakeAt(t, SelectSeq(<<>> \o [i \in 1..Len(t) |-> i],
                        LAMBDA i : ~(IsSpace(t[i]) /\ i > 1 /\ IsSpace(t[i - 1]))))

\* str comparison a < b (lexicographic by code point)
RECURSIVE StrLess(_, _)
StrLess(a, b) ==
    IF b = <<>> THEN FALSE
    ELSE IF a = <<>> THEN TRUE
    ELSE IF Head(a) = Head(b) THEN StrLess(Tail(a), Tail(b))
    ELSE Ord(Head(a)) < Ord(Head(b))

\* term in text
Contains(t, term) ==
    \E i \in 1..(Len(t) - Len(term) + 1) : SubSeq(t, i, i + Len(term) - 1) = term

(***************************************************************************)
(* semantic_utils.py                                                        *)
(***************************************************************************)
normalize_text(text) == CollapseSpaces(Strip(Lower(text)))

IsTokenChar(c) == c \in LowerChars \cup DigitChars

\* end (exclusive) of the run of token characters that starts at i
RECURSIVE TokenEnd(_, _)
TokenEnd(t, i) == IF i <= Len(t) /\ IsTokenChar(t[i]) THEN TokenEnd(t, i + 1) ELSE i

\* set(TOKEN_RE.findall(t)) for a normalized text t
TokensOf(t) ==
    { SubSeq(t, i, TokenEnd(t, i) - 1) :
        i \in { k \in 1..Len(t) : IsTokenChar(t[k]) /\ (k = 1 \/ ~IsTokenChar(t[k - 1])) } }

tokenize(text) == TokensOf(normalize_text(text))

\* jaccard_similarity for the token sets a and b
JaccardOf(a, b) ==
    IF a = {} /\ b = {} THEN Scale
    ELSE IF a = {} \/ b = {} THEN 0
    ELSE (Cardinality(a \cap b) * Scale) \div Cardinality(a \cup b)

jaccard_similarity(text_a, text_b) == JaccardOf(tokenize(text_a), tokenize(text_b))

\* length of the common run of a from i and b from j, inside [.., ahi) x [.., bhi)
RECURSIVE CommonRun(_, _, _, _, _, _)
CommonRun(a, b, i, j, ahi, bhi) ==
    IF i + 7 < ahi /\ j + 7 < bhi /\ SubSeq(a, i, i + 7) = SubSeq(b, j, j + 7)
    THEN 8 + CommonRun(a, b, i + 8, j + 8, ahi, bhi)
    ELSE IF i < ahi /\ j < bhi /\ a[i] = b[j]
    THEN 1 + CommonRun(a, b, i + 1, j + 1, ahi, bhi)
    ELSE 0

\* the maximal common blocks <<i, j, size>> of a[alo..ahi-1] and b[blo..bhi-1]:
\* a block starts where the elements agree and the ones before do not
Blocks(a, b, alo, ahi, blo, bhi) ==
    { <<p[1], p[2], CommonRun(a, b, p[1], p[2], ahi, bhi)>> :
        p \in { q \in (alo..(ahi - 1)) \X (blo..(bhi - 1)) :
                  /\ a[q[1]] = b[q[2]]
                  /\ \/ q[1] = alo
                     \/ q[2] = blo
                     \/ a[q[1] - 1] # b[q[2] - 1] } }

\* of the blocks in cands, the one starting earliest in a, then earliest in b
Earliest(cands) ==
    CHOOSE m \in cands : \A q \in cands : m[1] < q[1] \/ (m[1] = q[1] /\ m[2] <= q[2])

BlocksOfSize(blocks, size) == { m \in blocks : m[3] = size }

LongestBlock(blocks, alo, blo) ==
    IF blocks = {} THEN <<alo, blo, 0>>
    ELSE Earliest(BlocksOfSize(blocks, Greatest({ m[3] : m \in blocks })))

\* difflib.SequenceMatcher.find_longest_match without junk (autojunk only
\* applies to sequences of 200 or more elements): the longest block, of
\* those the one starting earliest in a, of those the earliest in b.
\* Windows are half-open, 1-based: a[alo..ahi-1], b[blo..bhi-1].
find_longest_match(a, b, alo, ahi, blo, bhi) ==
    LongestBlock(Blocks(a, b, alo, ahi, blo, bhi), alo, blo)

\* sum of the sizes of SequenceMatcher.get_matching_blocks(): the longest
\* match m of the window, and the matches to its left and to its right
RECURSIVE matching_size(_, _, _, _, _, _)
RECURSIVE MatchingAround(_, _, _, _, _, _, _)
MatchingAround(a, b, alo, ahi, blo, bhi, m) ==
    IF m[3] = 0 THEN 0
    ELSE m[3]
         + matching_size(a, b, alo, m[1], blo, m[2])
         + matching_size(a, b, m[1] + m[3], ahi, m[2] + m[3], bhi)

matching_size(a, b, alo, ahi, blo, bhi) ==
    IF alo >= ahi \/ blo >= bhi THEN 0
    ELSE MatchingAround(a, b, alo, ahi, blo, bhi, find_longest_match(a, b, alo, ahi, blo, bhi))

\* SequenceMatcher(None, a, b).ratio()
sequence_ratio(a, b) ==
    IF Len(a) + Len(b) = 0 THEN Scale
    ELSE (2 * matching_size(a, b, 1, Len(a) + 1, 1, Len(b) + 1) * Scale) \div (Len(a) + Len(b))

\* lexical_similarity for the normalized texts a and b
LexicalOf(a, b) ==
    IF a = <<>> /\ b = <<>> THEN Scale
    ELSE IF a = <<>> \/ b = <<>> THEN 0
    ELSE (55 * sequence_ratio(a, b) + 45 * jaccard_similarity(a, b)) \div 100

lexical_similarity(text_a, text_b) == LexicalOf(normalize_text(text_a), normalize_text(text_b))

\* semantic_similarity for the stripped texts a and b, with no embedding
\* backend (_get_embedder returns None unless ENABLE_EMBEDDINGS=1): emb_score
\* is None and the lexical score is returned
SemanticOf(a, b) ==
    IF a = <<>> /\ b = <<>> THEN Scale
    ELSE IF a = <<>> \/ b = <<>> THEN 0
    ELSE lexical_similarity(a, b)

semantic_similarity(text_a, text_b) == SemanticOf(Strip(text_a), Strip(text_b))

(***************************************************************************)
(* compare_sections.py: text predicates                                     *)
(***************************************************************************)
REGULATORY_TERMS ==
    { Chars("shall"), Chars("must"), Chars("required"), Chars("limit"),
      Chars("maximum"), Chars("minimum"), Chars("rest"), Chars("flight"),
      Chars("duty"), Chars("crew"), Chars("operator"), Chars("standby"),
      Chars("landing"), Chars("applicable"), Chars("applicability"),
      Chars("fdtl"), Chars("dgca"), Chars("not exceed") }

SCOPE_TERMS ==
    { Chars("applicable"), Chars("applicability"), Chars("all operators"),
      Chars("scheduled"), Chars("non-scheduled"), Chars("general aviation"),
      Chars("private"), Chars("public sector"), Chars("state governments"),
      Chars("except"), Chars("only") }

OPS_NUMERIC_TERMS ==
    { Chars("flight time"), Chars("flight duty"), Chars("fdp"), Chars("rest"),
      Chars("standby"), Chars("weekly rest"), Chars("landings"), Chars("sectors"),
      Chars("wocl"), Chars("applicable"), Chars("auw"), Chars("maximum"),
      Chars("minimum"), Chars("not exceed") }

NOISE_PHRASES ==
    { Chars("table of contents"), Chars("page"), Chars("issue"), Chars("dated"),
      Chars("effective"), Chars("dgca - car"), Chars("car -") }

\* the unit alternatives of TIME_OR_UNIT_PATTERN
UNIT_WORDS ==
    { Chars("hour"), Chars("hours"), Chars("hr"), Chars("hrs"), Chars("day"),
      Chars("days"), Chars("landing"), Chars("landings"), Chars("sector"),
      Chars("sectors"), Chars("minute"), Chars("minutes"), Chars("min"),
      Chars("mins"), Chars("kg"), Chars("auw") }

\* the references a decimal-only difference is taken to renumber (line 156)
REFERENCE_WORDS == { Chars("para"), Chars("sub para"), Chars("section"), Chars("table") }

\* the wording that makes a change CRITICAL (line 177)
CRITICAL_WORDS ==
    { Chars("shall not"), Chars("must"), Chars("not exceed"), Chars("maximum"), Chars("minimum") }

\* any(term in low for term in terms)
ContainsAny(low, terms) == \E term \in terms : Contains(low, term)

_normalize(text) == CollapseSpaces(Lower(Strip(text)))

\* a or b for strings
OrStr(a, b) == IF a # <<>> THEN a ELSE b

\* section.get("meaning") or section.get("body") or section.get("heading") or ""
_comparison_text(section) ==
    Strip(OrStr(section.meaning, OrStr(section.body, section.heading)))

\* \b at position p: between t[p-1] and t[p]
WordAt(t, p) == p >= 1 /\ p <= Len(t) /\ IsWord(t[p])
Boundary(t, p) == WordAt(t, p - 1) # WordAt(t, p)

RECURSIVE DigitsEnd(_, _)
DigitsEnd(t, i) == IF i <= Len(t) /\ IsDigit(t[i]) THEN DigitsEnd(t, i + 1) ELSE i

\* (?::\d{2}) at p: the position after it, or 0
ColonEnd(t, p) ==
    IF p + 2 <= Len(t) /\ t[p] = ":" /\ IsDigit(t[p + 1]) /\ IsDigit(t[p + 2])
    THEN p + 3 ELSE 0

\* (?:\.\d+) at p: the position after it, or 0 (also for p = 0: no position)
DotEnd(t, p) ==
    IF p >= 1 /\ p + 1 <= Len(t) /\ t[p] = "." /\ IsDigit(t[p + 1])
    THEN DigitsEnd(t, p + 1) ELSE 0

\* the ends after the digits end at d and the optional colon group ends at c
EndsAfter(t, d, c) == SelectSeq(<<DotEnd(t, c), c, DotEnd(t, d), d>>, LAMBDA e : e > 0)

\* The ends (exclusive) that \d+(?::\d{2})?(?:\.\d+)? can reach from i, in
\* the order backtracking tries them.  A shorter \d+ is always followed by
\* a digit, where neither group nor \b can match, so only the maximal runs
\* are listed.
EndsFromDigits(t, d) == EndsAfter(t, d, ColonEnd(t, d))
NumberEnds(t, i) == EndsFromDigits(t, DigitsEnd(t, i))

HeadOrZero(ends) == IF ends = <<>> THEN 0 ELSE Head(ends)

\* NUMBER_PATTERN.match at i: the end (exclusive) of the match, or 0
NumberMatchEnd(t, i) ==
    IF ~(i <= Len(t) /\ IsDigit(t[i]) /\ Boundary(t, i)) THEN 0
    ELSE HeadOrZero(SelectSeq(NumberEnds(t, i), LAMBDA e : Boundary(t, e)))

LeastOrZero(at) == IF at = {} THEN 0 ELSE Least(at)

\* the first position >= i where NUMBER_PATTERN matches, or 0
NextMatch(t, i) == LeastOrZero({ s \in i..Len(t) : NumberMatchEnd(t, s) > 0 })

\* NUMBER_PATTERN.findall(text) from position i on, as a set; s is the
\* start of the next match and e its end
RECURSIVE NumbersFrom(_, _)
RECURSIVE NumbersAt(_, _, _)
NumbersAt(t, s, e) == {SubSeq(t, s, e - 1)} \cup NumbersFrom(t, e)
NumbersNext(t, s) == IF s = 0 THEN {} ELSE NumbersAt(t, s, NumberMatchEnd(t, s))
NumbersFrom(t, i) == NumbersNext(t, NextMatch(t, i))

_extract_numbers(text) == NumbersFrom(text, 1)

\* NUMBER_PATTERN.sub(" ", text) from position i on
RECURSIVE RemoveFrom(_, _)
RECURSIVE RemoveAt(_, _, _)
RemoveAt(t, i, s) ==
    IF s = 0 THEN SubSeq(t, i, Len(t))
    ELSE SubSeq(t, i, s - 1) \o <<" ">> \o RemoveFrom(t, NumberMatchEnd(t, s))
RemoveFrom(t, i) == RemoveAt(t, i, NextMatch(t, i))

_remove_numbers(text) == RemoveFrom(text, 1)

\* min(S) under str comparison
LeastString(S) == CHOOSE x \in S : \A y \in S : y = x \/ StrLess(x, y)

\* sorted(set of strings): ascending by str comparison
RECURSIVE SortedStrings(_)
RECURSIVE SortedFrom(_, _)
SortedFrom(S, m) == <<m>> \o SortedStrings(S \ {m})
SortedStrings(S) == IF S = {} THEN <<>> ELSE SortedFrom(S, LeastString(S))

\* fault: the two differences exchanged
DeltaSwapped(old_nums, new_nums) ==
    [added |-> SortedStrings(old_nums \ new_nums),
     removed |-> SortedStrings(new_nums \ old_nums)]

DeltaOf(old_nums, new_nums) ==
    [added |-> SortedStrings(new_nums \ old_nums),
     removed |-> SortedStrings(old_nums \ new_nums)]

_numeric_delta(old_text, new_text) ==
    DeltaOf(_extract_numbers(old_text), _extract_numbers(new_text))

\* after the number core ending at e: \s* takes the spaces up to p, then an
\* optional unit word, then \b
TailOk(t, e) ==
    \E p \in e..(Len(t) + 1) :
       /\ \A q \in e..(p - 1) : IsSpace(t[q])
       /\ \/ Boundary(t, p)
          \/ \E u \in UNIT_WORDS :
                /\ p + Len(u) - 1 <= Len(t)
                /\ SubSeq(t, p, p + Len(u) - 1) = u
                /\ Boundary(t, p + Len(u))

AnyTailOk(t, ends) == \E k \in 1..Len(ends) : TailOk(t, ends[k])

\* TIME_OR_UNIT_PATTERN.search on a lower-case text (the pattern has re.I)
UnitSearchIn(t) ==
    \E i \in 1..Len(t) : IsDigit(t[i]) /\ Boundary(t, i) /\ AnyTailOk(t, NumberEnds(t, i))

\* bool(TIME_OR_UNIT_PATTERN.search(text))
TimeOrUnitSearch(text) == UnitSearchIn(Lower(text))

_contains_regulatory_signal(text) == ContainsAny(_normalize(text), REGULATORY_TERMS)

_contains_scope_signal(text) == ContainsAny(_normalize(text), SCOPE_TERMS)

\* len(low.split()) for a normalized string
WordCount(low) ==
    Cardinality({ i \in 1..Len(low) : ~IsSpace(low[i]) /\ (i = 1 \/ IsSpace(low[i - 1])) })

\* _is_substantive_rule for the normalized text low
SubstantiveOf(low) ==
    IF Len(low) < 45 THEN FALSE
    ELSE IF WordCount(low) < 8 THEN FALSE
    ELSE _contains_regulatory_signal(low) \/ TimeOrUnitSearch(low)

_is_substantive_rule(text) == SubstantiveOf(_normalize(text))

CountChars(t, P(_)) == Cardinality({ i \in 1..Len(t) : P(t[i]) })

\* the tests of _looks_like_noise on the counts of a normalized text
NoisyCounts(letters, digits, symbols) ==
    IF letters = 0 THEN TRUE
    ELSE IF 10 * symbols > 7 * letters THEN TRUE
    ELSE letters < 6 /\ digits > 0

\* symbols = max(0, len(low) - letters - digits - low.count(" "))
NoisyLetters(low, letters, digits) ==
    NoisyCounts(letters, digits, Max2(0, Len(low) - letters - digits - CountChars(low, IsSpace)))

\* _looks_like_noise for the normalized text low
NoiseOf(low) ==
    IF Len(low) < 8 THEN TRUE
    ELSE IF ContainsAny(low, NOISE_PHRASES) /\ ~_contains_regulatory_signal(low) THEN TRUE
    ELSE NoisyLetters(low, CountChars(low, IsAlpha), CountChars(low, IsDigit))

_looks_like_noise(text) == IF text = <<>> THEN TRUE ELSE NoiseOf(_normalize(text))

\* f"{a} {b}"
Joined(a, b) == a \o <<" ">> \o b

\* all("." in x and ":" not in x for x in diff)
DecimalOnly(diff) == \A x \in diff : Contains(x, <<".">>) /\ ~Contains(x, <<":">>)

\* _is_operational_numeric_change for the number sets and the normalized joined text
OperationalOf(old_nums, new_nums, combined) ==
    IF old_nums = new_nums THEN FALSE
    ELSE IF /\ DecimalOnly((old_nums \ new_nums) \cup (new_nums \ old_nums))
            /\ ContainsAny(combined, REFERENCE_WORDS)
         THEN FALSE
    ELSE ContainsAny(combined, OPS_NUMERIC_TERMS) /\ TimeOrUnitSearch(combined)

_is_operational_numeric_change(old_text, new_text) ==
    OperationalOf(_extract_numbers(old_text), _extract_numbers(new_text),
                  _normalize(Joined(old_text, new_text)))

_severity_from_text(change_type, subtype, old_text, new_text) ==
    IF change_type = "NOISE" THEN "MINOR"
    ELSE IF subtype \in {"Numeric limit changed", "Applicability changed"} THEN "CRITICAL"
    ELSE IF subtype \in {"Rule removed", "New rule added"}
         THEN IF _is_substantive_rule(Joined(old_text, new_text)) THEN "CRITICAL" ELSE "MODERATE"
    ELSE IF ContainsAny(Lower(Joined(old_text, new_text)), CRITICAL_WORDS) THEN "CRITICAL"
    ELSE IF change_type = "TRUE_CHANGE" THEN "MODERATE"
    ELSE "MINOR"

(***************************************************************************)
(* compare_sections.py: records                                             *)
(*                                                                          *)
(* A mapping is a sequence of section records in key order (a dict keeps    *)
(* insertion order); key is the mapping key, section the record's own       *)
(* "section" field.  An optional section (a section or None) is a sequence  *)
(* of length at most one.                                                   *)
(***************************************************************************)
\* {} : every .get falls back to ""
EmptySection == [key |-> <<>>, section |-> <<>>, heading |-> <<>>, body |-> <<>>, meaning |-> <<>>]

\* sec or {}
OrEmpty(opt) == IF opt = <<>> THEN EmptySection ELSE opt[1]

Keys(mapping) == <<>> \o [i \in 1..Len(mapping) |-> mapping[i].key]

\* mapping[key]
Get(mapping, k) == mapping[CHOOSE i \in 1..Len(mapping) : mapping[i].key = k]

\* f"C{n:04d}": at least four digits, zero padded
Digit(d) == Chars("0123456789")[d + 1]
RECURSIVE Decimal(_)
Decimal(n) == IF n < 10 THEN <<Digit(n)>> ELSE Decimal(n \div 10) \o <<Digit(n % 10)>>
PadTo4(d) == IF Len(d) >= 4 THEN d ELSE SubSeq(Chars("0000"), 1, 4 - Len(d)) \o d
ZeroPad4(n) == PadTo4(Decimal(n))
change_id_format(n) == <<"C">> \o ZeroPad4(n)

\* round(score, 3), in millionths
Round3(score) == ((score + 500) \div 1000) * 1000

\* the dict _build_change returns (lines 233-251)
ChangeRecord(n, ctype, severity, subtype, description, why, score, old_section, new_section, topic, old_text, new_text) ==
    [change_id          |-> change_id_format(n),
     type               |-> ctype,
     subtype            |-> subtype,
     severity           |-> severity,
     old_section        |-> old_section,
     new_section        |-> new_section,
     description        |-> description,
     why_it_is_a_change |-> why,
     section            |-> OrStr(new_section, old_section),
     section_old        |-> old_section,
     section_new        |-> new_section,
     topic              |-> OrStr(topic, OrStr(old_section, new_section)),
     change_type        |-> subtype,
     old_text           |-> old_text,
     new_text           |-> new_text,
     similarity_score   |-> Round3(score),
     numeric_delta      |-> _numeric_delta(old_text, new_text)]

\* n is the value next(_change_id_gen) returns
_build_change(old_sec, new_sec, ctype, severity, subtype, description, why, score, n) ==
    ChangeRecord(n, ctype, severity, subtype, description, why, score,
                 IF old_sec # <<>> THEN old_sec[1].section ELSE <<>>,
                 IF new_sec # <<>> THEN new_sec[1].section ELSE <<>>,
                 OrEmpty(IF new_sec # <<>> THEN new_sec ELSE old_sec).heading,
                 _comparison_text(OrEmpty(old_sec)),
                 _comparison_text(OrEmpty(new_sec)))

\* a label is the five constant arguments of a _build_change call
BuildLabelled(old_sec, new_sec, label, score, n) ==
    _build_change(old_sec, new_sec, label[1], label[2], label[3], label[4], label[5], score, n)

_pair_score(old_sec, new_sec) ==
    (25 * lexical_similarity(old_sec.heading, new_sec.heading)
     + 65 * semantic_similarity(_comparison_text(old_sec), _comparison_text(new_sec))
     + 10 * lexical_similarity(old_sec.body, new_sec.body)) \div 100

\* lines 215-220: best is <<best_id, best_sem, best_head, best_combo>>, best_id optional
Better(best, cid, sem, head, combo) ==
    IF combo > best[4] THEN <<(<<cid>>), sem, head, combo>> ELSE best

BestStep(best, cid, sem, head) == Better(best, cid, sem, head, (75 * sem + 25 * head) \div 100)

RECURSIVE BestFrom(_, _, _, _)
BestFrom(section, candidates, i, best) ==
    IF i > Len(candidates) THEN best
    ELSE BestFrom(section, candidates, i + 1,
                  BestStep(best, candidates[i].key,
                           semantic_similarity(_comparison_text(section),
                                               _comparison_text(candidates[i])),
                           lexical_similarity(section.heading, candidates[i].heading)))

_best_persistence_match(section, candidates) ==
    BestFrom(section, candidates, 1, <<(<<>>), 0 - Scale, 0 - Scale, 0 - Scale>>)

(***************************************************************************)
(* Classifier                                                               *)
(***************************************************************************)
unchanged_threshold == 950000

\* fault: rule 1 without the comparison of the section ids
MatchedLabelSameOnly(old_sec, new_sec, old_text, new_text, heading_sim, text_sim, score) ==
    IF _normalize(old_text) = _normalize(new_text) \/ score >= unchanged_threshold
    THEN <<>>
    ELSE << <<"SEMANTIC_MINOR", "MINOR", "Clarification without rule change",
              "Wording/clarity changes detected.",
              "Difference appears non-operational or uncertain.">> >>

\* The rules of _classify_matched_change in order: the label of the record
\* the first applicable rule builds, as an optional value (<<>> is None).
MatchedLabel(old_sec, new_sec, old_text, new_text, heading_sim, text_sim, score) ==
    IF _normalize(old_text) = _normalize(new_text) \/ score >= unchanged_threshold
    THEN IF old_sec.section # new_sec.section
         THEN << <<"STRUCTURAL_CHANGE", "MINOR", "STRUCTURAL_MOVE",
                   "Section was renumbered/moved.",
                   "Rule text is materially the same; only numbering/location changed.">> >>
         ELSE <<>>
    ELSE IF _looks_like_noise(old_text) /\ _looks_like_noise(new_text)
    THEN << <<"NOISE", "MINOR", "OCR/Parsing artifact",
              "Detected non-regulatory noisy text.",
              "Both sides look like OCR/header/footer artifacts.">> >>
    ELSE IF heading_sim < 900000 /\ text_sim >= 930000
    THEN << <<"STRUCTURAL_CHANGE", "MINOR", "Heading changes",
              "Heading wording/format changed with same rule content.",
              "Body meaning is effectively unchanged.">> >>
    ELSE IF old_sec.section # new_sec.section /\ text_sim >= 900000
    THEN << <<"STRUCTURAL_CHANGE", "MINOR", "STRUCTURAL_MOVE",
              "Content moved/renumbered.",
              "High semantic equivalence indicates identical rule relocated.">> >>
    ELSE IF /\ _is_operational_numeric_change(old_text, new_text)
            /\ semantic_similarity(_remove_numbers(old_text), _remove_numbers(new_text)) >= 840000
    THEN << <<"TRUE_CHANGE",
              _severity_from_text("TRUE_CHANGE", "Numeric limit changed", old_text, new_text),
              "Numeric limit changed",
              "Numeric operational limit changed.",
              "Operational context is same while enforceable numeric values differ.">> >>
    ELSE IF /\ _contains_scope_signal(old_text) \/ _contains_scope_signal(new_text)
            /\ text_sim < 840000
    THEN << <<"TRUE_CHANGE",
              _severity_from_text("TRUE_CHANGE", "Applicability changed", old_text, new_text),
              "Applicability changed",
              "Applicability/scope language changed.",
              "Operator categories or scope boundaries materially differ.">> >>
    ELSE IF /\ _contains_regulatory_signal(old_text) \/ _contains_regulatory_signal(new_text)
            /\ text_sim < 660000
            /\ _is_substantive_rule(old_text) \/ _is_substantive_rule(new_text)
    THEN << <<"TRUE_CHANGE",
              _severity_from_text("TRUE_CHANGE", "Operational requirement changed", old_text, new_text),
              "Operational requirement changed",
              "Operational requirement text changed.",
              "Pilot/operator action could change due to semantic requirement difference.">> >>
    ELSE << <<"SEMANTIC_MINOR", "MINOR", "Clarification without rule change",
              "Wording/clarity changes detected.",
              "Difference appears non-operational or uncertain.">> >>

\* fault: a moved section whose numbers differ is reported as a numeric change
BuildNumericMoves(old_sec, new_sec, label, score, n) ==
    IF label = <<>> THEN <<>>
    ELSE IF /\ label[1][3] = "STRUCTURAL_MOVE"
            /\ _extract_numbers(_comparison_text(old_sec)) # _extract_numbers(_comparison_text(new_sec))
    THEN <<BuildLabelled(<<old_sec>>, <<new_sec>>,
                         <<"TRUE_CHANGE", "CRITICAL", "Numeric limit changed",
                           "Numeric operational limit changed.",
                           "Operational context is same while enforceable numeric values differ.">>,
                         score, n)>>
    ELSE <<BuildLabelled(<<old_sec>>, <<new_sec>>, label[1], score, n)>>

\* the record for an optional label: <<>> is None
BuildOptional(old_sec, new_sec, label, score, n) ==
    IF label = <<>> THEN <<>>
    ELSE <<BuildLabelled(<<old_sec>>, <<new_sec>>, label[1], score, n)>>

ClassifyTexts(old_sec, new_sec, old_text, new_text, score, n) ==
    BuildOptional(old_sec, new_sec,
                  MatchedLabel(old_sec, new_sec, old_text, new_text,
                               lexical_similarity(old_sec.heading, new_sec.heading),
                               semantic_similarity(old_text, new_text), score),
                  score, n)

\* an optional change record: <<>> is None
_classify_matched_change(old_sec, new_sec, score, n) ==
    ClassifyTexts(old_sec, new_sec, _comparison_text(old_sec), _comparison_text(new_sec), score, n)

\* what a rule for an unmatched section decides: the label, the section of
\* the other document the record refers to (optional key) and the score
Outcome(label, partner, score) == [label |-> label, partner |-> partner, score |-> score]

\* best_id is not None and (combo >= relocation_threshold or sem >= 0.80 or head >= 0.88)
Relocated(best, relocation_threshold) ==
    /\ best[1] # <<>>
    /\ best[4] >= relocation_threshold \/ best[2] >= 800000 \/ best[3] >= 880000

\* "combo if best_id else 0.0": None and the empty key are falsy
ComboIfBest(best) == IF best[1] # <<>> /\ best[1][1] # <<>> THEN best[4] ELSE 0

UnmatchedOldOutcome(old_text, best, relocation_threshold) ==
    IF _looks_like_noise(old_text)
    THEN Outcome(<<"NOISE", "MINOR", "Non-regulatory text",
                   "Removed noisy/non-regulatory segment.",
                   "Text resembles metadata/header/footer/OCR noise.">>, <<>>, 0)
    ELSE IF Relocated(best, relocation_threshold)
    THEN Outcome(<<"STRUCTURAL_CHANGE", "MINOR", "MOVED_RULE",
                   "Rule moved/renumbered with same meaning.",
                   "Semantically equivalent rule exists elsewhere in new document.">>,
                 best[1], best[4])
    ELSE IF ~_is_substantive_rule(old_text)
    THEN Outcome(<<"SEMANTIC_MINOR", "MINOR", "Possible structural split/merge",
                   "Small unmatched fragment likely due to structure changes.",
                   "No strong evidence of operational requirement removal.">>,
                 <<>>, ComboIfBest(best))
    ELSE Outcome(<<"TRUE_CHANGE",
                   _severity_from_text("TRUE_CHANGE", "Rule removed", old_text, <<>>),
                   "Rule removed",
                   "A previously present rule is missing in new document.",
                   "No semantically equivalent rule found across the new document.">>, <<>>, 0)

\* sections[best_id], or None
Partner(sections, partner) == IF partner = <<>> THEN <<>> ELSE <<Get(sections, partner[1])>>

BuildOld(old_sec, new_sections, out, n) ==
    BuildLabelled(<<old_sec>>, Partner(new_sections, out.partner), out.label, out.score, n)

_classify_unmatched_old(old_sec, new_sections, relocation_threshold, n) ==
    BuildOld(old_sec, new_sections,
             UnmatchedOldOutcome(_comparison_text(old_sec),
                                 _best_persistence_match(old_sec, new_sections),
                                 relocation_threshold), n)

\* fault: _classify_unmatched_new without the test "not _is_substantive_rule"
UnmatchedNewNoFragment(new_text, best, relocation_threshold) ==
    IF _looks_like_noise(new_text)
    THEN Outcome(<<"NOISE", "MINOR", "Non-regulatory text",
                   "Added noisy/non-regulatory segment.",
                   "Text resembles metadata/header/footer/OCR noise.">>, <<>>, 0)
    ELSE IF Relocated(best, relocation_threshold)
    THEN Outcome(<<"STRUCTURAL_CHANGE", "MINOR", "MOVED_RULE",
                   "Rule moved/renumbered with same meaning.",
                   "Semantically equivalent rule exists elsewhere in old document.">>,
                 best[1], best[4])
    ELSE Outcome(<<"TRUE_CHANGE",
                   _severity_from_text("TRUE_CHANGE", "New rule added", <<>>, new_text),
                   "New rule added",
                   "A new rule appears in the updated document.",
                   "No semantically equivalent predecessor found across the old document.">>, <<>>, 0)

UnmatchedNewOutcome(new_text, best, relocation_threshold) ==
    IF _looks_like_noise(new_text)
    THEN Outcome(<<"NOISE", "MINOR", "Non-regulatory text",
                   "Added noisy/non-regulatory segment.",
                   "Text resembles metadata/header/footer/OCR noise.">>, <<>>, 0)
    ELSE IF Relocated(best, relocation_threshold)
    THEN Outcome(<<"STRUCTURAL_CHANGE", "MINOR", "MOVED_RULE",
                   "Rule moved/renumbered with same meaning.",
                   "Semantically equivalent rule exists elsewhere in old document.">>,
                 best[1], best[4])
    ELSE IF ~_is_substantive_rule(new_text)
    THEN Outcome(<<"SEMANTIC_MINOR", "MINOR", "Possible structural split/merge",
                   "Small unmatched fragment likely due to structure changes.",
                   "No strong evidence of operational requirement addition.">>,
                 <<>>, ComboIfBest(best))
    ELSE Outcome(<<"TRUE_CHANGE",
                   _severity_from_text("TRUE_CHANGE", "New rule added", <<>>, new_text),
                   "New rule added",
                   "A new rule appears in the updated document.",
                   "No semantically equivalent predecessor found across the old document.">>, <<>>, 0)

BuildNew(new_sec, old_sections, out, n) ==
    BuildLabelled(Partner(old_sections, out.partner), <<new_sec>>, out.label, out.score, n)

_classify_unmatched_new(new_sec, old_sections, relocation_threshold, n) ==
    BuildNew(new_sec, old_sections,
             UnmatchedNewOutcome(_comparison_text(new_sec),
                                 _best_persistence_match(new_sec, old_sections),
                                 relocation_threshold), n)

(***************************************************************************)
(* Validator                                                                *)
(***************************************************************************)
\* fault: a relabelling that leaves the severity as it was
DowngradeKeepsSeverity(ch, description, why) ==
    [ch EXCEPT !.type = "SEMANTIC_MINOR",
               !.subtype = "Clarification without rule change",
               !.change_type = "Clarification without rule change",
               !.description = description,
               !.why_it_is_a_change = why]

\* the relabelling both validator passes apply to a record
Downgrade(ch, description, why) ==
    [ch EXCEPT !.type = "SEMANTIC_MINOR",
               !.subtype = "Clarification without rule change",
               !.change_type = "Clarification without rule change",
               !.severity = "MINOR",
               !.description = description,
               !.why_it_is_a_change = why]

\* fault: the loop body without the "continue" for numeric and applicability changes
ImpactOneStrict(ch) ==
    IF ch.type # "TRUE_CHANGE" THEN ch
    ELSE IF /\ ch.subtype \in {"Rule removed", "New rule added"}
            /\ _is_substantive_rule(Joined(ch.old_text, ch.new_text)) THEN ch
    ELSE IF /\ semantic_similarity(ch.old_text, ch.new_text) < 640000
            /\ _is_substantive_rule(ch.old_text) \/ _is_substantive_rule(ch.new_text) THEN ch
    ELSE Downgrade(ch, "Difference appears non-operational after validation pass.",
                       "Second-pass filter: no clear operator action change detected.")

\* the loop body of _operational_impact_pass
ImpactOne(ch) ==
    IF ch.type # "TRUE_CHANGE" THEN ch
    ELSE IF ch.subtype \in {"Numeric limit changed", "Applicability changed"} THEN ch
    ELSE IF /\ ch.subtype \in {"Rule removed", "New rule added"}
            /\ _is_substantive_rule(Joined(ch.old_text, ch.new_text)) THEN ch
    ELSE IF /\ semantic_similarity(ch.old_text, ch.new_text) < 640000
            /\ _is_substantive_rule(ch.old_text) \/ _is_substantive_rule(ch.new_text) THEN ch
    ELSE Downgrade(ch, "Difference appears non-operational after validation pass.",
                       "Second-pass filter: no clear operator action change detected.")

\* fault: a pass that relabels nothing
ImpactPassKeepsAll(changes_in) == changes_in

_operational_impact_pass(changes_in) ==
    <<>> \o [i \in 1..Len(changes_in) |-> ImpactOne(changes_in[i])]

\* ",".join(strs)
RECURSIVE JoinComma(_)
JoinComma(strs) ==
    IF strs = <<>> THEN <<>>
    ELSE IF Len(strs) = 1 THEN strs[1]
    ELSE strs[1] \o <<",">> \o JoinComma(Tail(strs))

\* the merge condition of _dedupe_by_topic for a new record ch and a kept record ex
MergeCondition(ch, ex) ==
    /\ ex.type = ch.type
    /\ ex.subtype = ch.subtype
    /\ \/ lexical_similarity(_normalize(ch.topic), _normalize(ex.topic)) >= 920000
       \/ semantic_similarity(Joined(ch.old_text, ch.new_text),
                              Joined(ex.old_text, ex.new_text)) >= 940000

\* ",".join(sorted({s for s in [a, b] if s}))
JoinSections(a, b) == JoinComma(SortedStrings({ s \in {a, b} : s # <<>> }))

\* ex with the section lists ex_old and ex_new and the score of ch merged in
MergedWith(ex, ch, ex_old, ex_new) ==
    [ex EXCEPT !.old_section = ex_old,
               !.new_section = ex_new,
               !.section_old = ex_old,
               !.section_new = ex_new,
               !.section = OrStr(ex_new, ex_old),
               !.similarity_score = Max2(ex.similarity_score, ch.similarity_score)]

\* ex after ch has been merged into it
Merged(ex, ch) ==
    MergedWith(ex, ch, JoinSections(ex.old_section, ch.old_section),
                       JoinSections(ex.new_section, ch.new_section))

\* ch is merged into the first of the kept records at the positions hits, or appended
MergeAt(deduped, ch, hits) ==
    IF hits = {} THEN Append(deduped, ch)
    ELSE [deduped EXCEPT ![Least(hits)] = Merged(deduped[Least(hits)], ch)]

\* fault: ch is compared with the last kept record only
DedupeAdjacent(deduped, ch) ==
    MergeAt(deduped, ch, { k \in {Len(deduped)} : k >= 1 /\ MergeCondition(ch, deduped[k]) })

\* one iteration of the outer loop of _dedupe_by_topic
DedupeOne(deduped, ch) ==
    MergeAt(deduped, ch, { k \in 1..Len(deduped) : MergeCondition(ch, deduped[k]) })

\* the score _true_change_confidence computes for the joined text and the similarity
ConfidenceOf(text, sim) ==
    Min2(Scale,
         400000
         + (IF _is_substantive_rule(text) THEN 250000 ELSE 0)
         + (IF _contains_regulatory_signal(text) THEN 200000 ELSE 0)
         + (IF TimeOrUnitSearch(text) THEN 100000 ELSE 0)
         + Max2(0, 100000 - (sim * 5) \div 100))

_true_change_confidence(ch) ==
    IF ch.subtype = "Numeric limit changed" THEN Scale
    ELSE IF ch.subtype = "Applicability changed" THEN 950000
    ELSE ConfidenceOf(Joined(ch.old_text, ch.new_text), ch.similarity_score)

\* the number of positions sorted(..., reverse=True) puts before position i:
\* those with a greater key and, the sort being stable, the earlier ones
\* with an equal key
DescendingRank(keys, i) ==
    Cardinality({ j \in 1..Len(keys) : keys[j] > keys[i] \/ (keys[j] = keys[i] /\ j < i) })

\* the positions of a list in the order sorted(list, key, reverse=True)
\* visits them; keys[i] is the key of list[i]
DescendingOrder(keys) ==
    <<>> \o [k \in 1..Len(keys) |-> CHOOSE i \in 1..Len(keys) : DescendingRank(keys, i) = k - 1]

trigger_true_changes == 50
max_true_changes == 35

IsTrueChange(ch) == ch.type = "TRUE_CHANGE"

\* [c for c in changes if c.get("type") == "TRUE_CHANGE"]
TrueChanges(changes_in) == SelectSeq(changes_in, IsTrueChange)

Confidences(true_changes) ==
    <<>> \o [i \in 1..Len(true_changes) |-> _true_change_confidence(true_changes[i])]

\* {c.get("change_id") for c in ranked[:max_true_changes]}
IdsOfBest(true_changes, ranked) ==
    { true_changes[ranked[k]].change_id : k \in 1..Min2(max_true_changes, Len(ranked)) }

\* fault: ranked[:max_true_changes] without the slice
KeepEveryId(true_changes) == { true_changes[i].change_id : i \in 1..Len(true_changes) }

\* keep_ids of _cap_over_detection
KeepIds(true_changes) == IdsOfBest(true_changes, DescendingOrder(Confidences(true_changes)))

\* the loop body of _cap_over_detection
CapOne(ch, keep_ids) ==
    IF ch.type # "TRUE_CHANGE" THEN ch
    ELSE IF ch.change_id \in keep_ids THEN ch
    ELSE Downgrade(ch, "Auto-tightened due to high TRUE_CHANGE volume.",
                       "Low confidence compared with stronger operational changes.")

CapAll(changes_in, keep_ids) ==
    <<>> \o [i \in 1..Len(changes_in) |-> CapOne(changes_in[i], keep_ids)]

CapTrue(changes_in, true_changes) ==
    IF Len(true_changes) <= trigger_true_changes THEN changes_in
    ELSE CapAll(changes_in, KeepIds(true_changes))

_cap_over_detection(changes_in) == CapTrue(changes_in, TrueChanges(changes_in))

\* fault: the filter without include_non_true
ReturnedUnlessStrict(ch, strict_mode, include_non_true) ==
    /\ ch.type # "NOISE"
    /\ ~(strict_mode /\ ch.type # "TRUE_CHANGE")

\* the filter of _validate_changes
Returned(ch, strict_mode, include_non_true) ==
    /\ ch.type # "NOISE"
    /\ ~(strict_mode /\ ~include_non_true /\ ch.type # "TRUE_CHANGE")

OutputFilter(validated_in, strict_mode, include_non_true) ==
    SelectSeq(validated_in, LAMBDA ch : Returned(ch, strict_mode, include_non_true))

\* severity_rank.get(severity, 3)
severity_rank(severity) ==
    CASE severity = "CRITICAL" -> 0
      [] severity = "MODERATE" -> 1
      [] severity = "MINOR"    -> 2
      [] OTHER                 -> 3

\* fault: a sort key without the severity rank
KeyLessById(a, b) == StrLess(a.change_id, b.change_id)

\* the sort key (severity rank, change id) of a precedes that of b
KeyLess(a, b) ==
    \/ severity_rank(a.severity) < severity_rank(b.severity)
    \/ /\ severity_rank(a.severity) = severity_rank(b.severity)
       /\ StrLess(a.change_id, b.change_id)

\* the number of positions changes.sort(key=...) puts before position i
\* (the sort is stable and ascending)
AscendingRank(list, i) ==
    Cardinality({ j \in 1..Len(list) :
                    KeyLess(list[j], list[i]) \/ (~KeyLess(list[i], list[j]) /\ j < i) })

SortChanges(list) ==
    <<>> \o [k \in 1..Len(list) |-> list[CHOOSE i \in 1..Len(list) : AscendingRank(list, i) = k - 1]]

(***************************************************************************)
(* Matcher                                                                  *)
(***************************************************************************)
\* the pairs (score, oid, nid) in enumeration order: old ids outer, new ids inner
PairList(olds, news, score(_, _)) ==
    <<>> \o [k \in 1..(Len(olds) * Len(news)) |->
        <<score(olds[((k - 1) \div Len(news)) + 1], news[((k - 1) % Len(news)) + 1]),
          olds[((k - 1) \div Len(news)) + 1].key,
          news[((k - 1) % Len(news)) + 1].key>>]

Scores(pairs) == <<>> \o [i \in 1..Len(pairs) |-> pairs[i][1]]

\* fault: scored pairs that are left in enumeration order
PairsAsEnumerated(pairs) == pairs

\* pairs.sort(reverse=True, key=lambda x: x[0])
SortPairs(pairs) == TakeAt(pairs, DescendingOrder(Scores(pairs)))

HeadingScore(o, n) == lexical_similarity(o.heading, n.heading)

(***************************************************************************)
(* Inputs: a small library of sections and the documents built from it      *)
(***************************************************************************)
MaxSections == 3

Content(heading, body, meaning) ==
    [heading |-> Chars(heading), body |-> Chars(body), meaning |-> Chars(meaning)]

fdp13   == Content("Flight duty period limit", "The flight duty period shall not exceed 13 hours.", "")
fdp11   == Content("Flight duty period limit", "The flight duty period shall not exceed 11 hours.", "")
fdp12   == Content("Flight duty period limit", "The flight duty period shall not exceed 12 hours.", "")
stby    == Content("Standby", "Standby duty is limited to 16 hours.", "")
stbyH   == Content("Standby duty", "Standby duty is limited to 16 hours", "")
stbyM   == Content("Standby", "Standby duty: see the table below.", "Standby duty is limited to 16 hrs.")
stbyX   == Content("Standby", "Records are kept in the office.", "")
page4   == Content("PAGE 4", "", "")
page5   == Content("PAGE 5", "", "")
rest10  == Content("Rest", "Crew members shall complete a minimum of 10 hours rest before standby.", "")
restReq == Content("Rest", "Operators must keep records of all flight and duty times for 2 years.", "")
app1    == Content("Scope", "Applicable to all scheduled operators.", "")
app2    == Content("Scope", "This part applies only to private flights.", "")
note1   == Content("Note", "Records are kept in the office.", "")
note2   == Content("Note", "Records are stored in the main office.", "")
pilot13 == Content("Flight duty period limit", "The flight duty period of a pilot shall not exceed 13 hours.", "")
pilot12 == Content("Flight duty period limit", "The flight duty period of a pilot shall not exceed 12 hours.", "")
recOps  == Content("Keeping of records", "Operators must keep records of all flight and duty times.", "")
recCrew == Content("Keeping of records", "Crew shall keep logs of all flight and duty times.", "")
limA    == Content("Rest-and-duty -- limits", "Crew members shall complete a minimum of 10 hours rest before standby.", "")
limB    == Content("Rest-and -- duty-limits", "Operators must publish rosters 14 days in advance.", "")

\* a section record as the segmentation hands it over, under mapping key id
Entry(id, c) ==
    [key |-> Chars(id), section |-> <<>>, heading |-> c.heading, body |-> c.body, meaning |-> c.meaning]

OldBase ==
    { << Entry("6.1", fdp13), Entry("5.2", stby), Entry("7.3", rest10), Entry("1", page4) >>,
      << Entry("5.2", stby), Entry("6.1", stby), Entry("9.4", stby), Entry("7.3", stby) >>,
      << Entry("6.1", fdp13), Entry("6.2", fdp13), Entry("1", page4), Entry("8", app1) >>,
      << Entry("7.3", restReq), Entry("8", app1), Entry("9.4", note1), Entry("5.2", stbyX) >> }

NewBase ==
    { << Entry("6.1", fdp13), Entry("5.2", stby), Entry("7.3", rest10), Entry("1", page4) >>,
      << Entry("9.4", stby), Entry("5.2", stby), Entry("6.1", stby), Entry("7.3", stby) >>,
      << Entry("6.1", fdp11), Entry("6.2", fdp12), Entry("2", page5), Entry("8", app2) >>,
      << Entry("7.3", rest10), Entry("8", app2), Entry("9.5", note2), Entry("5.2", stbyH) >> }

\* the documents of at most MaxSections sections: the leading sections of a base document
Prefixes(base) == { SubSeq(d, 1, n) : d \in base, n \in 0..Min2(MaxSections, 4) }

\* a section that is renumbered while its limit changes, a requirement
\* that is reworded, and a section whose heading is reworded
OldRevised == << Entry("6.1", pilot13), Entry("7.3", recOps) >>
NewRevised == << Entry("6.2", pilot12), Entry("7.3", recCrew), Entry("5.2", stbyH) >>

\* two rules under headings that differ in their punctuation only
OldPunctuated == << Entry("3.1", limA), Entry("3.2", limB) >>

OldDocs == Prefixes(OldBase) \cup {OldRevised, OldPunctuated}
NewDocs == Prefixes(NewBase) \cup {NewRevised}

match_threshold_default == 580000
heading_fallback_threshold_default == 820000
relocation_threshold_default == 780000

DefaultConfig ==
    [match_threshold |-> match_threshold_default,
     heading_fallback_threshold |-> heading_fallback_threshold_default,
     relocation_threshold |-> relocation_threshold_default,
     strict_mode |-> TRUE,
     include_non_true |-> FALSE]

Configs ==
    { DefaultConfig,
      [DefaultConfig EXCEPT !.include_non_true = TRUE],
      [DefaultConfig EXCEPT !.strict_mode = FALSE, !.match_threshold = 0,
                            !.heading_fallback_threshold = 0],
      [DefaultConfig EXCEPT !.strict_mode = FALSE, !.include_non_true = TRUE,
                            !.match_threshold = Scale + 1, !.relocation_threshold = Scale + 1] }

(***************************************************************************)
(* State                                                                    *)
(***************************************************************************)
VARIABLES
    pc,             \* position in compare_sections
    run,            \* number of the current call in this process
    old_sections,   \* the caller's old mapping
    new_sections,   \* the caller's new mapping
    config,         \* the keyword arguments of the call
    next_id,        \* the value _change_id_gen yields next (module-level)
    id_reset,       \* the caller has reset _change_id_gen before every call so far
    scored_pairs,
    heading_pairs,
    idx,            \* position of the running for loop in its list
    matched_old,
    matched_new,
    matches,
    changes,
    classified,     \* the list the Classifier handed to _validate_changes
    deduped,        \* the list _dedupe_by_topic is building
    cap_input,      \* the list that entered _cap_over_detection
    validated,      \* the list that left _cap_over_detection
    result,         \* the list returned by this call
    first_result,   \* the list returned by the first call
    enable_embeddings,  \* os.getenv("ENABLE_EMBEDDINGS") is "1"
    embedder_cache,     \* the lru_cache of _get_embedder: empty, or the value it returned
    constructions,      \* number of constructions of SentenceTransformer attempted
    calls,              \* number of calls of semantic_similarity made from outside
    backend_failed,     \* a construction or a call of model.encode has raised
    last_call           \* what the latest call of semantic_similarity did (optional)

vars == <<pc, run, old_sections, new_sections, config, next_id, id_reset, scored_pairs,
          heading_pairs, idx, matched_old, matched_new, matches, changes, classified,
          deduped, cap_input, validated, result, first_result, enable_embeddings,
          embedder_cache, constructions, calls, backend_failed, last_call>>

locals == <<scored_pairs, heading_pairs, idx, matched_old, matched_new, matches, changes,
            classified, deduped, cap_input, validated, result>>

inputs == <<old_sections, new_sections, config>>

\* the state of semantic_utils
backend == <<enable_embeddings, embedder_cache, constructions, calls, backend_failed, last_call>>

LocalsInit ==
    /\ scored_pairs = <<>>
    /\ heading_pairs = <<>>
    /\ idx = 1
    /\ matched_old = {}
    /\ matched_new = {}
    /\ matches = <<>>
    /\ changes = <<>>
    /\ classified = <<>>
    /\ deduped = <<>>
    /\ cap_input = <<>>
    /\ validated = <<>>
    /\ result = <<>>

\* semantic_utils has been imported and nothing has called _get_embedder;
\* enabled is the environment toggle.  compare_sections is modelled in a
\* process where the toggle is off: _get_embedder returns None at every
\* call, from the cache or not, and semantic_similarity is SemanticOf.
BackendInit(enabled) ==
    /\ enable_embeddings = enabled
    /\ embedder_cache = <<>>
    /\ constructions = 0
    /\ calls = 0
    /\ backend_failed = FALSE
    /\ last_call = <<>>

\* the process has imported the module (_change_id_gen = count(1)) and a
\* caller is about to call compare_sections(olds, news, **cfg)
FirstCall(olds, news, cfg) ==
    /\ pc = "call"
    /\ run = 1
    /\ old_sections = olds
    /\ new_sections = news
    /\ config = cfg
    /\ next_id = 1
    /\ id_reset = TRUE
    /\ first_result = <<>>
    /\ LocalsInit
    /\ BackendInit(FALSE)

Init == \E olds \in OldDocs, news \in NewDocs, cfg \in Configs : FirstCall(olds, news, cfg)

(***************************************************************************)
(* compare_sections, step by step                                           *)
(***************************************************************************)
\* fault: the key is written to "heading" as well
StampHeadings(mapping) ==
    <<>> \o [i \in 1..Len(mapping) |->
                [mapping[i] EXCEPT !.section = mapping[i].key, !.heading = mapping[i].key]]

StampAll(mapping) == <<>> \o [i \in 1..Len(mapping) |-> [mapping[i] EXCEPT !.section = mapping[i].key]]

\* lines 628-636: every record's "section" is set to its key
Stamp ==
    /\ pc = "call"
    /\ old_sections' = StampAll(old_sections)
    /\ new_sections' = StampAll(new_sections)
    /\ pc' = "score"
    /\ UNCHANGED <<backend, run, config, next_id, id_reset, first_result, locals>>

\* lines 638-646
ScorePairs ==
    /\ pc = "score"
    /\ scored_pairs' = SortPairs(PairList(old_sections, new_sections, _pair_score))
    /\ idx' = 1
    /\ pc' = "pass1"
    /\ UNCHANGED <<backend, run, inputs, next_id, id_reset, first_result, heading_pairs, matched_old,
                   matched_new, matches, changes, classified, cap_input, validated, result,
                   deduped>>

\* one iteration of a greedy loop over pairs (lines 648-655 and 668-675)
LoopExit(pairs, threshold) ==
    IF idx > Len(pairs) THEN TRUE ELSE pairs[idx][1] < threshold
\* fault: a loop without the "continue" for sections that are taken
NeverMatched(pair) == FALSE
AlreadyMatched(pair) ==
    IF pair[2] \in matched_old THEN TRUE ELSE pair[3] \in matched_new
LoopSkip(pairs, threshold) ==
    IF LoopExit(pairs, threshold) THEN FALSE ELSE AlreadyMatched(pairs[idx])
LoopAccept(pairs, threshold) ==
    IF LoopExit(pairs, threshold) THEN FALSE ELSE ~AlreadyMatched(pairs[idx])

\* fault: an accepted pair does not mark its new section as matched
AcceptOldOnly(pair, score) ==
    /\ matched_old' = matched_old \cup {pair[2]}
    /\ matched_new' = matched_new
    /\ matches' = Append(matches, <<pair[2], pair[3], score>>)
    /\ idx' = idx + 1

Accept(pair, score) ==
    /\ matched_old' = matched_old \cup {pair[2]}
    /\ matched_new' = matched_new \cup {pair[3]}
    /\ matches' = Append(matches, <<pair[2], pair[3], score>>)
    /\ idx' = idx + 1

Pass1Accept ==
    /\ pc = "pass1"
    /\ LoopAccept(scored_pairs, config.match_threshold)
    /\ Accept(scored_pairs[idx], scored_pairs[idx][1])
    /\ UNCHANGED <<backend, pc, run, inputs, next_id, id_reset, first_result, scored_pairs, heading_pairs,
                   changes, classified, cap_input, validated, result,
                   deduped>>

Pass1Skip ==
    /\ pc = "pass1"
    /\ LoopSkip(scored_pairs, config.match_threshold)
    /\ idx' = idx + 1
    /\ UNCHANGED <<backend, pc, run, inputs, next_id, id_reset, first_result, scored_pairs, heading_pairs,
                   matched_old, matched_new, matches, changes, classified, cap_input,
                   validated, result,
                   deduped>>

\* fault: loops that classify every section, matched or not
EverySection(mapping, matched) == mapping

\* the sections a loop "for ... if id not in matched" visits
Unmatched(mapping, matched) == SelectSeq(mapping, LAMBDA sec : sec.key \notin matched)

\* pass 1 ends (break, or the list is exhausted); lines 657-666
Pass1Exit ==
    /\ pc = "pass1"
    /\ LoopExit(scored_pairs, config.match_threshold)
    /\ heading_pairs' = SortPairs(PairList(Unmatched(old_sections, matched_old),
                                           Unmatched(new_sections, matched_new), HeadingScore))
    /\ idx' = 1
    /\ pc' = "pass2"
    /\ UNCHANGED <<backend, run, inputs, next_id, id_reset, first_result, scored_pairs, matched_old,
                   matched_new, matches, changes, classified, cap_input, validated, result,
                   deduped>>

\* fault: a fallback match recorded without the discount
Undiscounted(hs) == hs

\* hs * 0.92
FallbackScore(hs) == (hs * 92) \div 100

Pass2Accept ==
    /\ pc = "pass2"
    /\ LoopAccept(heading_pairs, config.heading_fallback_threshold)
    /\ Accept(heading_pairs[idx], FallbackScore(heading_pairs[idx][1]))
    /\ UNCHANGED <<backend, pc, run, inputs, next_id, id_reset, first_result, scored_pairs, heading_pairs,
                   changes, classified, cap_input, validated, result,
                   deduped>>

Pass2Skip ==
    /\ pc = "pass2"
    /\ LoopSkip(heading_pairs, config.heading_fallback_threshold)
    /\ idx' = idx + 1
    /\ UNCHANGED <<backend, pc, run, inputs, next_id, id_reset, first_result, scored_pairs, heading_pairs,
                   matched_old, matched_new, matches, changes, classified, cap_input,
                   validated, result,
                   deduped>>

Pass2Exit ==
    /\ pc = "pass2"
    /\ LoopExit(heading_pairs, config.heading_fallback_threshold)
    /\ pc' = "classify"
    /\ UNCHANGED <<backend, run, inputs, next_id, id_reset, first_result, locals>>

\* lines 677-680: the list of changes after the matches from position i on;
\* c is the optional record of match i, n the value the id generator yields next
RECURSIVE ClassifyMatches(_, _, _)
RECURSIVE AddClassified(_, _, _, _)
AddClassified(i, acc, n, c) ==
    IF c # <<>> THEN ClassifyMatches(i + 1, Append(acc, c[1]), n + 1)
    ELSE ClassifyMatches(i + 1, acc, n)

ClassifyMatches(i, acc, n) ==
    IF i > Len(matches) THEN acc
    ELSE AddClassified(i, acc, n,
                       _classify_matched_change(Get(old_sections, matches[i][1]),
                                                Get(new_sections, matches[i][2]),
                                                matches[i][3], n))

\* every record built drew one value from _change_id_gen
ClassifyMatched ==
    /\ pc = "classify"
    /\ changes' = ClassifyMatches(1, changes, next_id)
    /\ next_id' = next_id + (Len(changes') - Len(changes))
    /\ pc' = "unmatched_old"
    /\ UNCHANGED <<backend, run, inputs, id_reset, first_result, scored_pairs, heading_pairs, idx,
                   matched_old, matched_new, matches, classified, cap_input, validated, result,
                   deduped>>

\* the records of one "for ... if id not in matched" loop; classify(sec, n) builds one record
ClassifyEach(todo, classify(_, _), n) ==
    <<>> \o [i \in 1..Len(todo) |-> classify(todo[i], n + i - 1)]

\* lines 682-684
ClassifyUnmatchedOld ==
    /\ pc = "unmatched_old"
    /\ changes' = changes \o
            ClassifyEach(Unmatched(old_sections, matched_old),
                         LAMBDA sec, n : _classify_unmatched_old(sec, new_sections,
                                                                 config.relocation_threshold, n),
                         next_id)
    /\ next_id' = next_id + (Len(changes') - Len(changes))
    /\ pc' = "unmatched_new"
    /\ UNCHANGED <<backend, run, inputs, id_reset, first_result, scored_pairs, heading_pairs, idx,
                   matched_old, matched_new, matches, classified, cap_input, validated, result,
                   deduped>>

\* lines 686-688
ClassifyUnmatchedNew ==
    /\ pc = "unmatched_new"
    /\ changes' = changes \o
            ClassifyEach(Unmatched(new_sections, matched_new),
                         LAMBDA sec, n : _classify_unmatched_new(sec, old_sections,
                                                                 config.relocation_threshold, n),
                         next_id)
    /\ classified' = changes'
    /\ next_id' = next_id + (Len(changes') - Len(changes))
    /\ pc' = "impact"
    /\ UNCHANGED <<backend, run, inputs, id_reset, first_result, scored_pairs, heading_pairs, idx,
                   matched_old, matched_new, matches, cap_input, validated, result,
                   deduped>>

\* _validate_changes, line 597; line 598 enters _dedupe_by_topic (line 512)
OperationalImpact ==
    /\ pc = "impact"
    /\ changes' = _operational_impact_pass(changes)
    /\ deduped' = <<>>
    /\ idx' = 1
    /\ pc' = "dedupe"
    /\ UNCHANGED <<backend, run, inputs, next_id, id_reset, first_result, scored_pairs, heading_pairs,
                   matched_old, matched_new, matches, classified, cap_input, validated, result>>

\* one iteration of the outer loop of _dedupe_by_topic (lines 513-542)
DedupeNext ==
    /\ pc = "dedupe"
    /\ idx <= Len(changes)
    /\ deduped' = DedupeOne(deduped, changes[idx])
    /\ idx' = idx + 1
    /\ UNCHANGED <<backend, pc, run, inputs, next_id, id_reset, first_result, scored_pairs, heading_pairs,
                   matched_old, matched_new, matches, changes, classified, cap_input, validated,
                   result>>

\* _dedupe_by_topic returns (line 543) to line 598
DedupeExit ==
    /\ pc = "dedupe"
    /\ idx > Len(changes)
    /\ changes' = deduped
    /\ cap_input' = changes'
    /\ pc' = "cap"
    /\ UNCHANGED <<backend, run, inputs, next_id, id_reset, first_result, scored_pairs, heading_pairs, idx,
                   matched_old, matched_new, matches, classified, deduped, validated, result>>

\* _validate_changes, line 599
Cap ==
    /\ pc = "cap"
    /\ changes' = _cap_over_detection(changes)
    /\ validated' = changes'
    /\ pc' = "filter"
    /\ UNCHANGED <<backend, run, inputs, next_id, id_reset, first_result, scored_pairs, heading_pairs, idx,
                   matched_old, matched_new, matches, classified, cap_input, result,
                   deduped>>

\* _validate_changes, lines 601-609
Filter ==
    /\ pc = "filter"
    /\ changes' = OutputFilter(changes, config.strict_mode, config.include_non_true)
    /\ pc' = "sort"
    /\ UNCHANGED <<backend, run, inputs, next_id, id_reset, first_result, scored_pairs, heading_pairs, idx,
                   matched_old, matched_new, matches, classified, cap_input, validated, result,
                   deduped>>

\* lines 692-695
SortAndReturn ==
    /\ pc = "sort"
    /\ changes' = SortChanges(changes)
    /\ result' = changes'
    /\ first_result' = IF run = 1 THEN changes' ELSE first_result
    /\ pc' = "done"
    /\ UNCHANGED <<backend, run, inputs, next_id, id_reset, scored_pairs, heading_pairs, idx,
                   matched_old, matched_new, matches, classified, cap_input, validated,
                   deduped>>

\* fault: a second call after a reset that does not reach _change_id_gen
CallAgainCounting(reset) ==
    /\ pc = "done"
    /\ run = 1
    /\ run' = 2
    /\ pc' = "call"
    /\ id_reset' = (id_reset /\ reset)
    /\ scored_pairs' = <<>>
    /\ heading_pairs' = <<>>
    /\ idx' = 1
    /\ matched_old' = {}
    /\ matched_new' = {}
    /\ matches' = <<>>
    /\ changes' = <<>>
    /\ classified' = <<>>
    /\ deduped' = <<>>
    /\ cap_input' = <<>>
    /\ validated' = <<>>
    /\ result' = <<>>
    /\ UNCHANGED <<backend, inputs, first_result, next_id>>

\* The caller calls compare_sections a second time with the same mappings
\* (now stamped) and the same keyword arguments.  _change_id_gen is
\* module-level: it keeps counting unless the caller has set it back to
\* count(1) (reset).
CallAgain(reset) ==
    /\ pc = "done"
    /\ run = 1
    /\ run' = 2
    /\ pc' = "call"
    /\ next_id' = IF reset THEN 1 ELSE next_id
    /\ id_reset' = (id_reset /\ reset)
    /\ scored_pairs' = <<>>
    /\ heading_pairs' = <<>>
    /\ idx' = 1
    /\ matched_old' = {}
    /\ matched_new' = {}
    /\ matches' = <<>>
    /\ changes' = <<>>
    /\ classified' = <<>>
    /\ deduped' = <<>>
    /\ cap_input' = <<>>
    /\ validated' = <<>>
    /\ result' = <<>>
    /\ UNCHANGED <<backend, inputs, first_result>>

Next ==
    \/ Stamp
    \/ ScorePairs
    \/ Pass1Accept
    \/ Pass1Skip
    \/ Pass1Exit
    \/ Pass2Accept
    \/ Pass2Skip
    \/ Pass2Exit
    \/ ClassifyMatched
    \/ ClassifyUnmatchedOld
    \/ ClassifyUnmatchedNew
    \/ OperationalImpact
    \/ DedupeNext
    \/ DedupeExit
    \/ Cap
    \/ Filter
    \/ SortAndReturn
    \/ CallAgain(TRUE)
    \/ CallAgain(FALSE)

Spec == Init /\ [][Next]_vars

(***************************************************************************)
(* Large documents: more than trigger_true_changes removed rules            *)
(***************************************************************************)
MaxCapSections == 52

\* a two-letter word for i, distinct for distinct i below 400
CodeLetters == Chars("bcdfghjklmnpqrstvwxz")
Code(i) == <<CodeLetters[(i \div 20) + 1], CodeLetters[(i % 20) + 1]>>

\* a rule of its own for every i; every third one states a time limit
RuleSection(i) ==
    [key     |-> Decimal(100 + i),
     section |-> <<>>,
     heading |-> Chars("Zone ") \o Code(i),
     body    |-> (IF i % 3 = 0 THEN Chars("Crew shall rest 10 hours before any duty in zone ")
                  ELSE Chars("Crew shall rest before any duty in zone "))
                 \o Code(i) \o Chars(" and ") \o Code(i + 200) \o <<".">>,
     meaning |-> <<>>]

Rules(n) == <<>> \o [i \in 1..n |-> RuleSection(i)]

\* old documents of a page header, a note and n rules that the new document
\* drops, n around trigger_true_changes
CapDocs ==
    { <<Entry("1", page4), Entry("2", note1)>> \o Rules(n) :
        n \in (MaxCapSections - 3)..MaxCapSections }

CapConfigs == { DefaultConfig, [DefaultConfig EXCEPT !.include_non_true = TRUE] }

InitCap == \E olds \in CapDocs, cfg \in CapConfigs : FirstCall(olds, <<>>, cfg)

\* the steps of compare_sections that a call with an empty new mapping takes
NextCap ==
    \/ Stamp
    \/ ScorePairs
    \/ Pass1Exit
    \/ Pass2Exit
    \/ ClassifyMatched
    \/ ClassifyUnmatchedOld
    \/ ClassifyUnmatchedNew
    \/ OperationalImpact
    \/ DedupeNext
    \/ DedupeExit
    \/ Cap
    \/ Filter
    \/ SortAndReturn

SpecCap == InitCap /\ [][NextCap]_vars

(***************************************************************************)
(* A long-lived process: _change_id_gen is never set back, so the ids of    *)
(* all calls of a process come from one counter.  Here the process builds   *)
(* the record of the same numeric change again and again; changes holds     *)
(* the two records built last.                                              *)
(***************************************************************************)
MaxIds == 10000

InitIds ==
    /\ pc = "build"
    /\ run = 1
    /\ old_sections = StampAll(<<Entry("6.1", fdp13)>>)
    /\ new_sections = StampAll(<<Entry("6.1", fdp11)>>)
    /\ config = DefaultConfig
    /\ next_id = 1
    /\ id_reset = TRUE
    /\ first_result = <<>>
    /\ LocalsInit
    /\ BackendInit(FALSE)

LastOf(list) == IF list = <<>> THEN <<>> ELSE <<list[Len(list)]>>

\* one call of _build_change (lines 225-251), the call of lines 318-328
BuildChange ==
    /\ pc = "build"
    /\ next_id <= MaxIds
    /\ changes' = Append(LastOf(changes),
                         _build_change(<<old_sections[1]>>, <<new_sections[1]>>,
                                       "TRUE_CHANGE", "CRITICAL", "Numeric limit changed",
                                       "Numeric operational limit changed.",
                                       "Operational context is same while enforceable numeric values differ.",
                                       Scale, next_id))
    /\ next_id' = next_id + 1
    /\ UNCHANGED <<backend, pc, run, inputs, id_reset, first_result, scored_pairs, heading_pairs, idx,
                   matched_old, matched_new, matches, classified, cap_input, validated, result,
                   deduped>>

NextIds == BuildChange

SpecIds == InitIds /\ [][NextIds]_vars

(***************************************************************************)
(* Properties                                                               *)
(***************************************************************************)
Range(list) == { list[i] : i \in 1..Len(list) }

CountIf(list, P(_)) == Cardinality({ i \in 1..Len(list) : P(list[i]) })

\* id is one of the ids of a comma-joined id list
Lists(joined, id) == Contains(<<",">> \o joined \o <<",">>, <<",">> \o id \o <<",">>)

\* C1: at every point of the two matching passes, and after them, each old
\* section id occurs in at most one matched pair and each new section id
\* occurs in at most one matched pair.
C1_OneToOne ==
    \A i, j \in 1..Len(matches) :
        i # j => matches[i][1] # matches[j][1] /\ matches[i][2] # matches[j][2]

\* both passes are over, two pairs are matched, and a pair that reached the
\* match threshold was passed over because one of its sections was taken
C1_Witness ==
    /\ pc = "classify"
    /\ Len(matches) >= 2
    /\ \E i \in 1..Len(scored_pairs) :
          /\ scored_pairs[i][1] >= config.match_threshold
          /\ \A m \in 1..Len(matches) :
                matches[m][1] # scored_pairs[i][2] \/ matches[m][2] # scored_pairs[i][3]

SameMapping == Range(old_sections) = Range(new_sections)

\* C3: for identical old and new mappings (whatever the key order, with or
\* without sections of equal content) the returned list holds no
\* TRUE_CHANGE record and no STRUCTURAL_CHANGE record whose old section id
\* differs from its new section id, under every strict_mode and
\* include_non_true.
C3_IdenticalMappings ==
    (pc = "done" /\ SameMapping) =>
        \A i \in 1..Len(result) :
            /\ result[i].type # "TRUE_CHANGE"
            /\ ~(result[i].type = "STRUCTURAL_CHANGE"
                 /\ result[i].old_section # result[i].new_section)

\* one old and one new section, with different ids and normalized-equal comparison texts
MovedPair ==
    /\ Len(old_sections) = 1
    /\ Len(new_sections) = 1
    /\ old_sections[1].key # new_sections[1].key
    /\ _normalize(_comparison_text(old_sections[1])) = _normalize(_comparison_text(new_sections[1]))

IsStructuralMove(ch) ==
    ch.type = "STRUCTURAL_CHANGE" /\ ch.subtype = "STRUCTURAL_MOVE" /\ ch.severity = "MINOR"

\* C4 as stated: for an old and a new section with normalized-equal texts
\* and different ids, and no other sections, the engine emits exactly one
\* record, of type STRUCTURAL_CHANGE, subtype "STRUCTURAL_MOVE", severity MINOR.
C4_EmitsOneMove ==
    (pc = "done" /\ MovedPair) => Len(result) = 1 /\ IsStructuralMove(result[1])

\* C4 amended: for such a pair the Classifier creates exactly one record,
\* STRUCTURAL_CHANGE / "STRUCTURAL_MOVE" / MINOR, from the old id to the new
\* id; compare_sections returns it when include_non_true is set or
\* strict_mode is off, and returns the empty list otherwise (the default).
C4_OneMoveIfRequested ==
    (pc = "done" /\ MovedPair) =>
        /\ Len(classified) = 1
        /\ IsStructuralMove(classified[1])
        /\ classified[1].old_section = old_sections[1].key
        /\ classified[1].new_section = new_sections[1].key
        /\ result = IF config.include_non_true \/ ~config.strict_mode THEN classified ELSE <<>>

C4_Witness == pc = "done" /\ MovedPair /\ config = DefaultConfig /\ Len(classified) = 1

\* the case of rule 5 for the sections and texts of a matched pair with score
NumericCaseOf(old_sec, new_sec, old_text, new_text, score) ==
    /\ old_sec.section = new_sec.section
    /\ _normalize(old_text) # _normalize(new_text)
    /\ score < 950000
    /\ ~(_looks_like_noise(old_text) /\ _looks_like_noise(new_text))
    /\ ~(/\ lexical_similarity(old_sec.heading, new_sec.heading) < 900000
         /\ semantic_similarity(old_text, new_text) >= 930000)
    /\ _extract_numbers(old_text) # _extract_numbers(new_text)
    /\ _is_operational_numeric_change(old_text, new_text)
    /\ semantic_similarity(_remove_numbers(old_text), _remove_numbers(new_text)) >= 840000

NumericCaseIn(old_sec, new_sec, score) ==
    NumericCaseOf(old_sec, new_sec, _comparison_text(old_sec), _comparison_text(new_sec), score)

\* the matched pair m = <<old id, new id, score>> is a case of rule 5
NumericCase(m) ==
    NumericCaseIn(Get(old_sections, m[1]), Get(new_sections, m[2]), m[3])

IsNumericLimit(ch) ==
    ch.type = "TRUE_CHANGE" /\ ch.subtype = "Numeric limit changed" /\ ch.severity = "CRITICAL"

\* C5 as stated: the record the classifier creates for a matched pair of
\* rule 5 is TRUE_CHANGE / "Numeric limit changed" / CRITICAL, keeps that
\* through the operational-impact pass and dedup, and is returned.
C5_RecordReturned ==
    pc = "done" =>
        \A m \in Range(matches) : NumericCase(m) =>
            \E c \in Range(classified), r \in Range(result) :
                /\ c.old_section = m[1] /\ c.new_section = m[2]
                /\ IsNumericLimit(c)
                /\ r.change_id = c.change_id
                /\ IsNumericLimit(r)

\* C5 amended: the classifier creates such a record for the pair, and the
\* returned list (under every configuration) holds a TRUE_CHANGE /
\* "Numeric limit changed" / CRITICAL record that lists the pair's id: the
\* record itself, or an earlier record of the same type and subtype into
\* which dedup has merged it.
C5_ReturnedOrMerged ==
    pc = "done" =>
        \A m \in Range(matches) : NumericCase(m) =>
            \E c \in Range(classified), r \in Range(result) :
                /\ c.old_section = m[1] /\ c.new_section = m[2]
                /\ IsNumericLimit(c)
                /\ r.change_id = c.change_id \/ StrLess(r.change_id, c.change_id)
                /\ IsNumericLimit(r)
                /\ Lists(r.old_section, m[1])
                /\ Lists(r.new_section, m[2])

\* a pair of rule 5 whose record dedup has merged into an earlier one
C5_Witness ==
    /\ pc = "done"
    /\ \E m \in Range(matches) :
          /\ NumericCase(m)
          /\ \E r \in Range(result) :
                IsNumericLimit(r) /\ r.old_section # m[1] /\ Lists(r.old_section, m[1])

\* C6: when the list entering _cap_over_detection holds more than 50
\* TRUE_CHANGE records, the list leaving it holds at most 35, and every
\* record the cap changed has type SEMANTIC_MINOR and subtype
\* "Clarification without rule change".
C6_VolumeCap ==
    (/\ pc \in {"filter", "sort", "done"}
     /\ CountIf(cap_input, LAMBDA ch : ch.type = "TRUE_CHANGE") > 50) =>
        /\ CountIf(validated, LAMBDA ch : ch.type = "TRUE_CHANGE") <= 35
        /\ Len(validated) = Len(cap_input)
        /\ \A i \in 1..Len(validated) :
              validated[i] # cap_input[i] =>
                  /\ validated[i].type = "SEMANTIC_MINOR"
                  /\ validated[i].subtype = "Clarification without rule change"

C6_Witness ==
    /\ pc = "filter"
    /\ CountIf(cap_input, LAMBDA ch : ch.type = "TRUE_CHANGE") > 50
    /\ \E i \in 1..Len(validated) : validated[i] # cap_input[i]

\* C7: a validated record is returned if and only if its type is not NOISE
\* and (its type is TRUE_CHANGE, or include_non_true is set, or strict_mode
\* is off).
C7_OutputFilter ==
    pc = "done" =>
        /\ Range(result) =
              { v \in Range(validated) :
                  /\ v.type # "NOISE"
                  /\ v.type = "TRUE_CHANGE" \/ config.include_non_true \/ ~config.strict_mode }
        /\ Len(result) = Cardinality(Range(result))

\* a call that dropped a NOISE record and returned a record that is no TRUE_CHANGE
C7_Witness ==
    /\ pc = "done"
    /\ \E v \in Range(validated) : v.type = "NOISE"
    /\ \E r \in Range(result) : r.type # "TRUE_CHANGE"

\* CRITICAL=0, MODERATE=1, MINOR=2, anything else=3
RankOf(severity) ==
    IF severity = "CRITICAL" THEN 0
    ELSE IF severity = "MODERATE" THEN 1
    ELSE IF severity = "MINOR" THEN 2
    ELSE 3

\* C8: the returned list is ordered by severity rank, and records of equal
\* severity rank by ascending change id.
C8_Ordered ==
    pc = "done" =>
        \A i, j \in 1..Len(result) : i < j =>
            \/ RankOf(result[i].severity) < RankOf(result[j].severity)
            \/ /\ RankOf(result[i].severity) = RankOf(result[j].severity)
               /\ StrLess(result[i].change_id, result[j].change_id)

\* a returned list in which a record built later precedes one built earlier
C8_Witness ==
    /\ pc = "done"
    /\ \E i, j \in 1..Len(result) :
          i < j /\ StrLess(result[j].change_id, result[i].change_id)

\* C9: of two change records built in a process, the one built later has
\* the change id that is greater under str comparison.
C9_IdsIncrease ==
    (pc = "build" /\ Len(changes) = 2) =>
        StrLess(changes[1].change_id, changes[2].change_id)

\* C10: in every record, after classification, after the Validator's
\* passes and in the returned list, added is the set of numeric tokens of
\* new_text that are not in old_text and removed the set of those of
\* old_text that are not in new_text; the two are disjoint.
C10_NumericDelta ==
    pc \in {"impact", "cap", "done"} =>
        \A r \in Range(changes) :
            /\ Range(r.numeric_delta.added) =
                  _extract_numbers(r.new_text) \ _extract_numbers(r.old_text)
            /\ Range(r.numeric_delta.removed) =
                  _extract_numbers(r.old_text) \ _extract_numbers(r.new_text)
            /\ Range(r.numeric_delta.added) \cap Range(r.numeric_delta.removed) = {}

\* a returned record that dedup has merged another one into and that has both deltas
C10_Witness ==
    /\ pc = "done"
    /\ \E r \in Range(result) :
          /\ Contains(r.old_section, <<",">>)
          /\ r.numeric_delta.added # <<>>
          /\ r.numeric_delta.removed # <<>>


(***************************************************************************)
(* Classifier: unmatched sections                                           *)
(***************************************************************************)
UnmatchedOld == Unmatched(old_sections, matched_old)
UnmatchedNew == Unmatched(new_sections, matched_new)

\* lines 677-688 append the records of the matches, then one record per
\* unmatched old section, then one per unmatched new section
UnmatchedOldAt(j) == classified[Len(classified) - Len(UnmatchedNew) - Len(UnmatchedOld) + j]
UnmatchedNewAt(j) == classified[Len(classified) - Len(UnmatchedNew) + j]

\* record ch follows the first applicable step for an unmatched section with
\* comparison text text and best relocation candidate best; final is the
\* subtype of the last step
FirstApplicableStep(ch, text, best, final) ==
    IF _looks_like_noise(text)
    THEN ch.type = "NOISE"
    ELSE IF /\ best[1] # <<>>
            /\ \/ best[4] >= config.relocation_threshold
               \/ best[2] >= 800000
               \/ best[3] >= 880000
    THEN ch.type = "STRUCTURAL_CHANGE" /\ ch.subtype = "MOVED_RULE" /\ ch.severity = "MINOR"
    ELSE IF ~_is_substantive_rule(text)
    THEN ch.type = "SEMANTIC_MINOR" /\ ch.subtype = "Possible structural split/merge"
    ELSE /\ ch.type = "TRUE_CHANGE"
         /\ ch.subtype = final
         /\ ch.severity = IF _is_substantive_rule(text) THEN "CRITICAL" ELSE "MODERATE"

\* C11: when the Classifier hands its list over, the record of every
\* unmatched old section and of every unmatched new section is the one the
\* first applicable step decides: noise, moved rule, split/merge fragment,
\* rule removed (old) or new rule added (new), the latter CRITICAL if the
\* text is substantive and MODERATE otherwise.
C11_UnmatchedSteps ==
    pc = "impact" =>
        /\ \A j \in 1..Len(UnmatchedOld) :
              /\ UnmatchedOldAt(j).old_section = UnmatchedOld[j].key
              /\ FirstApplicableStep(UnmatchedOldAt(j), _comparison_text(UnmatchedOld[j]),
                                     _best_persistence_match(UnmatchedOld[j], new_sections),
                                     "Rule removed")
        /\ \A j \in 1..Len(UnmatchedNew) :
              /\ UnmatchedNewAt(j).new_section = UnmatchedNew[j].key
              /\ FirstApplicableStep(UnmatchedNewAt(j), _comparison_text(UnmatchedNew[j]),
                                     _best_persistence_match(UnmatchedNew[j], old_sections),
                                     "New rule added")

\* a substantive, non-noise new section without a counterpart was classified
C11_Witness ==
    /\ pc = "impact"
    /\ \E j \in 1..Len(UnmatchedNew) :
          /\ ~_looks_like_noise(_comparison_text(UnmatchedNew[j]))
          /\ _is_substantive_rule(_comparison_text(UnmatchedNew[j]))
          /\ UnmatchedNewAt(j).type = "TRUE_CHANGE"
          /\ UnmatchedNewAt(j).subtype = "New rule added"
          /\ UnmatchedNewAt(j).severity = "CRITICAL"

(***************************************************************************)
(* semantic_utils.py: the optional embedding backend.  A process calls      *)
(* semantic_similarity from outside; the environment toggle may change      *)
(* between calls.  Whether the construction of the model succeeds and what  *)
(* model.encode does are the backend's choice.                              *)
(***************************************************************************)
MaxCalls == 3

\* fault: a cache that keeps a model but not None
CacheUnlessNone(model) == IF model = "None" THEN <<>> ELSE <<model>>

\* functools.lru_cache(maxsize=1) on a function without arguments: the
\* value of the first call that returns is kept, None included
CacheAfter(model) == <<model>>

\* _get_embedder is about to run its body (lines 52-62) and pass the toggle
Constructs == embedder_cache = <<>> /\ enable_embeddings

\* the value _get_embedder() returns; load_ok: the import and the
\* construction of line 58-60 do not raise
_get_embedder(load_ok) ==
    IF embedder_cache # <<>> THEN embedder_cache[1]
    ELSE IF ~enable_embeddings THEN "None"
    ELSE IF load_ok THEN "model"
    ELSE "None"

\* model.encode is called (line 71)
Encodes(model) == model # "None"

\* _embedding_similarity for the model _get_embedder returned; enc is what
\* lines 71-72 yield: <<>> if they raise, else the dot product.  The result
\* is optional (<<>> is None).
_embedding_similarity(model, enc) ==
    IF model = "None" THEN <<>>
    ELSE IF enc = <<>> THEN <<>>
    ELSE <<Max2(0, Min2(Scale, enc[1]))>>

\* lines 91-97 for the stripped, non-empty texts a and b
SemanticWith(a, b, emb_score) ==
    IF emb_score = <<>> THEN lexical_similarity(a, b)
    ELSE (75 * emb_score[1] + 25 * lexical_similarity(a, b)) \div 100

EmbTexts == { <<>>, Chars(" "), Chars("Standby duty"), Chars("Standby  Duty "), Chars("Rest period") }

\* model.encode raises (<<>>) or the dot product of the two vectors is d
EncodeOutcomes == { <<>>, <<0 - 250000>>, <<600000>>, <<Scale + 1>> }

\* what a call did: its arguments, the toggle at the call, whether the
\* backend had failed before it, whether it called model.encode, its value
Observed(text_a, text_b, encoded, value) ==
    <<[text_a |-> text_a, text_b |-> text_b, enabled |-> enable_embeddings,
       failed_before |-> backend_failed, encoded |-> encoded, value |-> value]>>

\* lines 86-89: a text is empty after strip; the backend is not reached
CallWithoutBackend(text_a, text_b) ==
    /\ Strip(text_a) = <<>> \/ Strip(text_b) = <<>>
    /\ last_call' = Observed(text_a, text_b, FALSE,
                             IF Strip(text_a) = <<>> /\ Strip(text_b) = <<>> THEN Scale ELSE 0)
    /\ UNCHANGED <<embedder_cache, constructions, backend_failed>>

\* lines 91-97, with the model _get_embedder returns
CallWithModel(text_a, text_b, load_ok, enc, model) ==
    /\ Strip(text_a) # <<>>
    /\ Strip(text_b) # <<>>
    /\ embedder_cache' = IF embedder_cache # <<>> THEN embedder_cache ELSE CacheAfter(model)
    /\ constructions' = IF Constructs THEN constructions + 1 ELSE constructions
    /\ backend_failed' = IF Constructs /\ ~load_ok THEN TRUE
                         ELSE IF Encodes(model) /\ enc = <<>> THEN TRUE
                         ELSE backend_failed
    /\ last_call' = Observed(text_a, text_b, Encodes(model),
                             SemanticWith(Strip(text_a), Strip(text_b),
                                          _embedding_similarity(model, enc)))

\* one call of semantic_similarity (lines 78-97)
SemanticSimilarity ==
    /\ pc = "scorer"
    /\ calls < MaxCalls
    /\ calls' = calls + 1
    /\ \E text_a \in EmbTexts, text_b \in EmbTexts, load_ok \in BOOLEAN, enc \in EncodeOutcomes :
          \/ CallWithoutBackend(text_a, text_b)
          \/ CallWithModel(text_a, text_b, load_ok, enc, _get_embedder(load_ok))
    /\ UNCHANGED <<enable_embeddings, pc, run, inputs, next_id, id_reset, first_result, locals>>

\* the environment variable ENABLE_EMBEDDINGS is set to "1", or to something else
SetEnvironment(enabled) ==
    /\ pc = "scorer"
    /\ enable_embeddings # enabled
    /\ enable_embeddings' = enabled
    /\ UNCHANGED <<embedder_cache, constructions, calls, backend_failed, last_call,
                   pc, run, inputs, next_id, id_reset, first_result, locals>>

InitEmb ==
    /\ pc = "scorer"
    /\ run = 1
    /\ old_sections = <<>>
    /\ new_sections = <<>>
    /\ config = DefaultConfig
    /\ next_id = 1
    /\ id_reset = TRUE
    /\ first_result = <<>>
    /\ LocalsInit
    /\ \E enabled \in BOOLEAN : BackendInit(enabled)

NextEmb ==
    \/ SemanticSimilarity
    \/ SetEnvironment(TRUE)
    \/ SetEnvironment(FALSE)

SpecEmb == InitEmb /\ [][NextEmb]_vars

\* C12: a call of semantic_similarity made after the backend has failed
\* (the construction or model.encode raised) does not call model.encode and
\* returns the lexical similarity of its stripped texts.
C12_PermanentFallback ==
    (last_call # <<>> /\ last_call[1].failed_before) =>
        /\ ~last_call[1].encoded
        /\ \/ Strip(last_call[1].text_a) = <<>>
           \/ Strip(last_call[1].text_b) = <<>>
           \/ last_call[1].value = lexical_similarity(Strip(last_call[1].text_a),
                                                      Strip(last_call[1].text_b))

\* C20: the construction of the backend is attempted at most once in a
\* process, and once _get_embedder has returned (a model, None after a
\* failed construction, None for the disabled state) no later step changes
\* the memoized outcome or constructs again, whatever the toggle is then.
C20_Memoized ==
    [][/\ constructions' <= 1
       /\ embedder_cache # <<>> =>
             (embedder_cache' = embedder_cache /\ constructions' = constructions)]_vars

\* the disabled state was memoized, the toggle was switched on, and a later
\* call that reached the backend reused the outcome without constructing
C20_Witness ==
    /\ calls >= 2
    /\ last_call # <<>>
    /\ last_call[1].enabled
    /\ Strip(last_call[1].text_a) # <<>>
    /\ Strip(last_call[1].text_b) # <<>>
    /\ embedder_cache = <<"None">>
    /\ constructions = 0

(***************************************************************************)
(* Matcher                                                                  *)
(***************************************************************************)
PositionIn(mapping, id) == CHOOSE i \in 1..Len(mapping) : mapping[i].key = id

\* the place of pair <<score, oid, nid>> in the enumeration of lines 639-641
EnumerationIndex(pair) ==
    (PositionIn(old_sections, pair[2]) - 1) * Len(new_sections) + PositionIn(new_sections, pair[3])

\* pair i of scored_pairs is one of the matches
Accepted(i) ==
    \E m \in 1..Len(matches) :
        matches[m] = <<scored_pairs[i][2], scored_pairs[i][3], scored_pairs[i][1]>>

\* pair i shares a section with an accepted pair before it
TakenBefore(i) ==
    \E h \in 1..(i - 1) :
        /\ Accepted(h)
        /\ scored_pairs[h][2] = scored_pairs[i][2] \/ scored_pairs[h][3] = scored_pairs[i][3]

\* pass 1 has just ended: pass 2 has not looked at a pair yet
Pass1Ended == pc = "pass2" /\ idx = 1

\* C13: when pass 1 starts scored_pairs holds every (old, new) pair once
\* with its pair score; the pairs are ordered by descending score and, for
\* equal scores, in enumeration order; of the pairs pass 1 has examined,
\* exactly those are matches whose score reaches match_threshold and whose
\* sections no earlier accepted pair had taken; every match has a score of
\* at least match_threshold; and when pass 1 ends no two unmatched sections
\* have a pair score of match_threshold or more.
C13_GreedyPass1 ==
    /\ (pc = "pass1" /\ idx = 1) =>
          /\ Len(scored_pairs) = Len(old_sections) * Len(new_sections)
          /\ \A o \in 1..Len(old_sections), n \in 1..Len(new_sections) :
                \E i \in 1..Len(scored_pairs) :
                    /\ scored_pairs[i][2] = old_sections[o].key
                    /\ scored_pairs[i][3] = new_sections[n].key
                    /\ scored_pairs[i][1] = _pair_score(old_sections[o], new_sections[n])
    /\ (pc = "pass1" \/ Pass1Ended) =>
          /\ \A i \in 1..Len(scored_pairs), j \in 1..Len(scored_pairs) :
                i < j =>
                    \/ scored_pairs[i][1] > scored_pairs[j][1]
                    \/ /\ scored_pairs[i][1] = scored_pairs[j][1]
                       /\ EnumerationIndex(scored_pairs[i]) < EnumerationIndex(scored_pairs[j])
          /\ \A m \in 1..Len(matches) : matches[m][3] >= config.match_threshold
    /\ pc = "pass1" =>
          /\ \A i \in 1..Min2(idx - 1, Len(scored_pairs)) :
                Accepted(i) <=> (scored_pairs[i][1] >= config.match_threshold /\ ~TakenBefore(i))
          /\ \A i \in idx..Len(scored_pairs) : ~Accepted(i)
    /\ Pass1Ended =>
          \A o \in 1..Len(old_sections), n \in 1..Len(new_sections) :
              (old_sections[o].key \notin matched_old /\ new_sections[n].key \notin matched_new)
                  => _pair_score(old_sections[o], new_sections[n]) < config.match_threshold

\* pass 1 has ended after accepting a pair, passing over a pair whose
\* section was taken, ordering two pairs of equal score, and leaving an old
\* and a new section unmatched
C13_Witness ==
    /\ Pass1Ended
    /\ matches # <<>>
    /\ \E i \in 1..Len(scored_pairs) :
          /\ scored_pairs[i][1] >= config.match_threshold
          /\ ~Accepted(i)
    /\ \E i \in 1..Len(scored_pairs), j \in 1..Len(scored_pairs) :
          i < j /\ scored_pairs[i][1] = scored_pairs[j][1]
    /\ UnmatchedOld # <<>>
    /\ UnmatchedNew # <<>>

\* match m was made by pass 2: its pair is one of the heading pairs
InPass2(m) ==
    \E h \in 1..Len(heading_pairs) :
        heading_pairs[h][2] = matches[m][1] /\ heading_pairs[h][3] = matches[m][2]

\* C14: while and after pass 2 runs, the matches of pass 1 are still the
\* pairs pass 1 accepted, with their scores, and precede the matches of
\* pass 2; a match of pass 2 joins two sections that no pass-1 match and no
\* other pass-2 match contains, the lexical similarity of their headings is
\* at least heading_fallback_threshold, and its score is that similarity
\* times 0.92.
C14_HeadingFallback ==
    (pc = "pass2" \/ pc = "classify") =>
        /\ \A i \in 1..Len(scored_pairs) :
              Accepted(i) <=> (scored_pairs[i][1] >= config.match_threshold /\ ~TakenBefore(i))
        /\ \A m \in 1..Len(matches) :
              IF InPass2(m)
              THEN /\ \A k \in 1..Len(matches) :
                         k # m => (matches[k][1] # matches[m][1] /\ matches[k][2] # matches[m][2])
                   /\ lexical_similarity(Get(old_sections, matches[m][1]).heading,
                                         Get(new_sections, matches[m][2]).heading)
                         >= config.heading_fallback_threshold
                   /\ matches[m][3]
                         = (lexical_similarity(Get(old_sections, matches[m][1]).heading,
                                               Get(new_sections, matches[m][2]).heading) * 92) \div 100
              ELSE /\ \E i \in 1..Len(scored_pairs) :
                         matches[m] = <<scored_pairs[i][2], scored_pairs[i][3], scored_pairs[i][1]>>
                   /\ \A k \in 1..(m - 1) : ~InPass2(k)

\* pass 2 has ended with a match of pass 1 and a match of its own, after
\* leaving a heading pair below the threshold aside
C14_Witness ==
    /\ pc = "classify"
    /\ \E m \in 1..Len(matches) : InPass2(m)
    /\ \E m \in 1..Len(matches) : ~InPass2(m)
    /\ \E h \in 1..Len(heading_pairs) : heading_pairs[h][1] < config.heading_fallback_threshold

\* the sections of a mapping that no match contains; side is 1 for the
\* old mapping and 2 for the new one
OutsideMatches(mapping, side) ==
    SelectSeq(mapping, LAMBDA sec : \A m \in 1..Len(matches) : matches[m][side] # sec.key)

\* the number of records the two loops over unmatched sections appended
UnmatchedRecords ==
    Len(OutsideMatches(old_sections, 1)) + Len(OutsideMatches(new_sections, 2))

\* the positions in classified of the records the loop over the unmatched
\* old sections appended, and of those the loop over the new ones appended
OldLoopRecords ==
    (Len(classified) - UnmatchedRecords + 1)..(Len(classified) - Len(OutsideMatches(new_sections, 2)))
NewLoopRecords ==
    (Len(classified) - Len(OutsideMatches(new_sections, 2)) + 1)..Len(classified)

\* C15: when the Classifier hands its list over, every old id is in
\* exactly one match or has exactly one record of the loop over unmatched
\* old sections, never both and never neither, and likewise every new id;
\* the records before those of the two loops are at most one per match;
\* and if one of the mappings is empty there is no match, the list holds
\* exactly one record per section of the other mapping, and none of them
\* is a MOVED_RULE or names a section of the empty mapping.
C15_Partition ==
    pc = "impact" =>
        /\ Len(classified) >= UnmatchedRecords
        /\ Len(classified) - UnmatchedRecords <= Len(matches)
        /\ \A o \in 1..Len(old_sections) :
              Cardinality({ m \in 1..Len(matches) : matches[m][1] = old_sections[o].key })
              + Cardinality({ k \in OldLoopRecords : classified[k].old_section = old_sections[o].key })
              = 1
        /\ \A n \in 1..Len(new_sections) :
              Cardinality({ m \in 1..Len(matches) : matches[m][2] = new_sections[n].key })
              + Cardinality({ k \in NewLoopRecords : classified[k].new_section = new_sections[n].key })
              = 1
        /\ (old_sections = <<>> \/ new_sections = <<>>) =>
              /\ matches = <<>>
              /\ Len(classified) = Len(old_sections) + Len(new_sections)
              /\ \A k \in 1..Len(classified) :
                    /\ classified[k].subtype # "MOVED_RULE"
                    /\ old_sections = <<>> => classified[k].old_section = <<>>
                    /\ new_sections = <<>> => classified[k].new_section = <<>>

\* a call with an empty old mapping and two or more new sections has
\* classified every new section
C15_Witness ==
    /\ pc = "impact"
    /\ old_sections = <<>>
    /\ Len(new_sections) >= 2
    /\ Len(classified) = Len(new_sections)

(***************************************************************************)
(* Classifier: matched pairs                                                *)
(***************************************************************************)
\* the number of the first rule of the Classifier's list that applies to a
\* matched pair with comparison texts old_text, new_text
FirstRule(old_sec, new_sec, old_text, new_text, heading_sim, text_sim, score) ==
    IF _normalize(old_text) = _normalize(new_text) \/ score >= 950000 THEN 1
    ELSE IF _looks_like_noise(old_text) /\ _looks_like_noise(new_text) THEN 2
    ELSE IF heading_sim < 900000 /\ text_sim >= 930000 THEN 3
    ELSE IF old_sec.section # new_sec.section /\ text_sim >= 900000 THEN 4
    ELSE IF /\ _extract_numbers(old_text) # _extract_numbers(new_text)
            /\ _is_operational_numeric_change(old_text, new_text)
            /\ semantic_similarity(_remove_numbers(old_text), _remove_numbers(new_text)) >= 840000
    THEN 5
    ELSE IF /\ _contains_scope_signal(old_text) \/ _contains_scope_signal(new_text)
            /\ text_sim < 840000
    THEN 6
    ELSE IF /\ _contains_regulatory_signal(old_text) \/ _contains_regulatory_signal(new_text)
            /\ text_sim < 660000
            /\ _is_substantive_rule(old_text) \/ _is_substantive_rule(new_text)
    THEN 7
    ELSE 8

\* type and subtype of the record rule r emits; <<>> is "no change"
RuleEmits(r, same_id) ==
    IF r = 1 THEN IF same_id THEN <<>> ELSE <<"STRUCTURAL_CHANGE", "STRUCTURAL_MOVE">>
    ELSE IF r = 2 THEN <<"NOISE", "OCR/Parsing artifact">>
    ELSE IF r = 3 THEN <<"STRUCTURAL_CHANGE", "Heading changes">>
    ELSE IF r = 4 THEN <<"STRUCTURAL_CHANGE", "STRUCTURAL_MOVE">>
    ELSE IF r = 5 THEN <<"TRUE_CHANGE", "Numeric limit changed">>
    ELSE IF r = 6 THEN <<"TRUE_CHANGE", "Applicability changed">>
    ELSE IF r = 7 THEN <<"TRUE_CHANGE", "Operational requirement changed">>
    ELSE <<"SEMANTIC_MINOR", "Clarification without rule change">>

\* the first applicable rule for match m
RuleOfPair(old_sec, new_sec, score) ==
    FirstRule(old_sec, new_sec, _comparison_text(old_sec), _comparison_text(new_sec),
              lexical_similarity(old_sec.heading, new_sec.heading),
              semantic_similarity(_comparison_text(old_sec), _comparison_text(new_sec)), score)
RuleOf(m) == RuleOfPair(Get(old_sections, matches[m][1]), Get(new_sections, matches[m][2]), matches[m][3])

\* the records of the list that are about the pair of match m
RecordsOfMatch(list, m) ==
    { k \in 1..Len(list) :
        list[k].old_section = matches[m][1] /\ list[k].new_section = matches[m][2] }

\* the records for match m are what rule r emits
EmittedBy(list, m, r) ==
    IF RuleEmits(r, matches[m][1] = matches[m][2]) = <<>>
    THEN RecordsOfMatch(list, m) = {}
    ELSE /\ Cardinality(RecordsOfMatch(list, m)) = 1
         /\ \A k \in RecordsOfMatch(list, m) :
               /\ <<list[k].type, list[k].subtype>> = RuleEmits(r, matches[m][1] = matches[m][2])
               /\ list[k].type = "TRUE_CHANGE" => r > 4

\* the text similarity of the sections of match m
TextSimilarity(m) ==
    semantic_similarity(_comparison_text(Get(old_sections, matches[m][1])),
                        _comparison_text(Get(new_sections, matches[m][2])))

\* C16: after the loop over the matches the list holds, for every match,
\* exactly the record that the first applicable rule of rules 1 to 8
\* emits (none for rule 1 with equal ids, else exactly one); a TRUE_CHANGE
\* record comes from a rule after rule 4; and a match whose section ids
\* differ and whose text similarity is at least 0.90 has no TRUE_CHANGE
\* record.
C16_FirstRuleWins ==
    pc = "unmatched_old" =>
        /\ Len(changes) <= Len(matches)
        /\ \A m \in 1..Len(matches) :
              /\ EmittedBy(changes, m, RuleOf(m))
              /\ (matches[m][1] # matches[m][2] /\ TextSimilarity(m) >= 900000) =>
                    \A k \in RecordsOfMatch(changes, m) : changes[k].type # "TRUE_CHANGE"

\* a renumbered section to which rules 1 to 3 do not apply, with text
\* similarity of 0.90 or more and a different number in an operational
\* context, has been classified as a structural move
C16_Witness ==
    /\ pc = "unmatched_old"
    /\ \E m \in 1..Len(matches) :
          /\ matches[m][1] # matches[m][2]
          /\ RuleOf(m) = 4
          /\ _is_operational_numeric_change(_comparison_text(Get(old_sections, matches[m][1])),
                                            _comparison_text(Get(new_sections, matches[m][2])))
          /\ \E k \in RecordsOfMatch(changes, m) : changes[k].subtype = "STRUCTURAL_MOVE"

(***************************************************************************)
(* Validator                                                                *)
(***************************************************************************)
\* record r is record c relabelled as a clarification, nothing else changed
\* but the two explanatory texts
Relabelled(c, r) ==
    /\ r.type = "SEMANTIC_MINOR"
    /\ r.subtype = "Clarification without rule change"
    /\ r.severity = "MINOR"
    /\ r.change_id = c.change_id
    /\ r.old_section = c.old_section
    /\ r.new_section = c.new_section
    /\ r.old_text = c.old_text
    /\ r.new_text = c.new_text
    /\ r.similarity_score = c.similarity_score

\* what the operational-impact pass makes of record c is r
ImpactKeeps(c, r) ==
    IF c.type # "TRUE_CHANGE" THEN r = c
    ELSE IF c.subtype = "Numeric limit changed" \/ c.subtype = "Applicability changed" THEN r = c
    ELSE IF /\ c.subtype = "Rule removed" \/ c.subtype = "New rule added"
            /\ _is_substantive_rule(c.old_text) \/ _is_substantive_rule(c.new_text)
    THEN r = c
    ELSE IF /\ semantic_similarity(c.old_text, c.new_text) < 640000
            /\ _is_substantive_rule(c.old_text) \/ _is_substantive_rule(c.new_text)
    THEN r = c
    ELSE Relabelled(c, r)

\* C17: the list the operational-impact pass returns has the length and
\* the order of the list it was given; a record that is not a TRUE_CHANGE,
\* a numeric limit or applicability change, and a removed or added rule
\* with substantive text are returned unchanged; any other TRUE_CHANGE is
\* returned unchanged if the similarity of its texts is below 0.64 and one
\* of them is a substantive rule, and is otherwise relabelled
\* SEMANTIC_MINOR / "Clarification without rule change" / MINOR.
C17_ImpactPass ==
    pc = "dedupe" =>
        /\ Len(changes) = Len(classified)
        /\ \A k \in 1..Len(classified) : ImpactKeeps(classified[k], changes[k])

\* the pass has relabelled an "Operational requirement changed" record
\* whose texts are 0.64 or more similar
C17_Witness ==
    /\ pc = "dedupe"
    /\ \E k \in 1..Len(classified) :
          /\ classified[k].type = "TRUE_CHANGE"
          /\ classified[k].subtype = "Operational requirement changed"
          /\ changes[k].type = "SEMANTIC_MINOR"

(***************************************************************************)
(* Validator: topic dedup                                                   *)
(***************************************************************************)
\* While _dedupe_by_topic runs, changes is its argument and the records
\* changes[1..idx-1] have been processed.  A merge leaves the type, the
\* subtype, the topic and the texts of the kept record alone, so whether
\* record j was kept is decided by the records before it as they were given.
RECURSIVE Survives(_)
Survives(j) ==
    \A i \in 1..(j - 1) : MergeCondition(changes[j], changes[i]) => ~Survives(i)

\* the position of the record that record j was merged into (j if it was kept)
MergedInto(j) ==
    IF Survives(j) THEN j
    ELSE Least({ i \in 1..(j - 1) : Survives(i) /\ MergeCondition(changes[j], changes[i]) })

\* the kept record at position s and the records merged into it so far
GroupOf(s) == { j \in 1..(idx - 1) : MergedInto(j) = s }

\* the position in changes of the k-th kept record
SourceOf(k) == CHOOSE s \in 1..(idx - 1) : changes[s].change_id = deduped[k].change_id

OldIds(G) == { changes[j].old_section : j \in G } \ {<<>>}
NewIds(G) == { changes[j].new_section : j \in G } \ {<<>>}
MaxScore(G) == Greatest({ changes[j].similarity_score : j \in G })

\* ex lists the section ids of the records G, sorted, and has their greatest score
MergeResult(ex, G) ==
    /\ ex.old_section = JoinComma(SortedStrings(OldIds(G)))
    /\ ex.new_section = JoinComma(SortedStrings(NewIds(G)))
    /\ ex.similarity_score = MaxScore(G)

\* C18: at every point of the dedup, the old_section (new_section) of a
\* kept record is the sorted, comma-joined list of the old (new) section
\* ids of the record itself and of the records merged into it, each id
\* once, and its similarity score is the greatest of their scores.
C18_MergeResult ==
    pc = "dedupe" => \A k \in 1..Len(deduped) : MergeResult(deduped[k], GroupOf(SourceOf(k)))

\* the same for the kept records into which at most one record was merged
MergeResultOfTwo ==
    pc = "dedupe" =>
        \A k \in 1..Len(deduped) :
            Cardinality(GroupOf(SourceOf(k))) <= 2 => MergeResult(deduped[k], GroupOf(SourceOf(k)))

\* the score alone, for any number of merged records
ScoreOfGroup ==
    pc = "dedupe" =>
        \A k \in 1..Len(deduped) : deduped[k].similarity_score = MaxScore(GroupOf(SourceOf(k)))

(***************************************************************************)
(* Classifier: sections per record                                          *)
(***************************************************************************)
\* no two records of list name the same old section, and no two the same new section
OneRecordPerSection(list) ==
    \A i, j \in 1..Len(list) :
        i # j =>
            /\ list[i].old_section # <<>> => list[i].old_section # list[j].old_section
            /\ list[i].new_section # <<>> => list[i].new_section # list[j].new_section

\* C19: in the list of records the Classifier hands to the Validator, no
\* section id is the new_section of more than one record and no section id
\* is the old_section of more than one record.
C19_OneRecordPerSection ==
    pc = "impact" => OneRecordPerSection(classified)

\* record k is the MOVED_RULE record that one of the loops at the positions
\* loop built for an unmatched section
MovedRuleOf(k, loop) == k \in loop /\ classified[k].subtype = "MOVED_RULE"

\* C19 (as the code has it): two records of the list the Classifier hands
\* to the Validator name the same old section only if one of them is the
\* MOVED_RULE record of an unmatched new section, which names the old
\* section as its relocation candidate, and name the same new section only
\* if one of them is the MOVED_RULE record of an unmatched old section.
C19_SharedByMovedRule ==
    pc = "impact" =>
        \A i, j \in 1..Len(classified) :
            i # j =>
                /\ (classified[i].old_section # <<>>
                    /\ classified[i].old_section = classified[j].old_section)
                      => (MovedRuleOf(i, NewLoopRecords) \/ MovedRuleOf(j, NewLoopRecords))
                /\ (classified[i].new_section # <<>>
                    /\ classified[i].new_section = classified[j].new_section)
                      => (MovedRuleOf(i, OldLoopRecords) \/ MovedRuleOf(j, OldLoopRecords))

\* under the default configuration, the record of a match and the
\* MOVED_RULE record of an unmatched old section name the same new section
C19_Witness ==
    /\ pc = "impact"
    /\ config = DefaultConfig
    /\ \E i \in 1..(Len(classified) - UnmatchedRecords) :
          \E j \in OldLoopRecords :
              /\ classified[j].subtype = "MOVED_RULE"
              /\ classified[j].new_section = classified[i].new_section
              /\ classified[j].old_section # classified[i].old_section

(***************************************************************************)
(* The caller's mappings                                                    *)
(***************************************************************************)
\* mapping after is mapping before with the same keys in the same order and
\* the same heading, body and meaning under every key; "section" is what
\* it was or the key
OnlyStamped(before, after) ==
    /\ Len(after) = Len(before)
    /\ \A i \in 1..Len(before) :
          /\ after[i].key = before[i].key
          /\ after[i].heading = before[i].heading
          /\ after[i].body = before[i].body
          /\ after[i].meaning = before[i].meaning
          /\ after[i].section \in {before[i].section, before[i].key}

\* C21: no step of compare_sections changes the key set of a mapping or
\* the heading, body or meaning of a section record; the only field of a
\* section record that a step writes is "section", and it writes the
\* record's mapping key.
C21_OnlyStamps ==
    [][OnlyStamped(old_sections, old_sections') /\ OnlyStamped(new_sections, new_sections')]_vars

\* a call has returned records for mappings whose sections it has stamped
C21_Witness ==
    /\ pc = "done"
    /\ result # <<>>
    /\ old_sections # <<>>
    /\ new_sections # <<>>
    /\ \A i \in 1..Len(old_sections) : old_sections[i].section = old_sections[i].key
    /\ \A i \in 1..Len(new_sections) : new_sections[i].section = new_sections[i].key

(***************************************************************************)
(* Type and severity                                                        *)
(***************************************************************************)
\* calls with the small documents and calls with the large ones
InitStages == Init \/ InitCap

SpecStages == InitStages /\ [][Next]_vars

TypeSeverity(c) ==
    /\ c.type \in {"TRUE_CHANGE", "NOISE", "STRUCTURAL_CHANGE", "SEMANTIC_MINOR"}
    /\ c.severity = "MINOR" <=> c.type # "TRUE_CHANGE"
    /\ c.type = "TRUE_CHANGE" => c.severity \in {"CRITICAL", "MODERATE"}

EveryTypeSeverity(list) == \A k \in 1..Len(list) : TypeSeverity(list[k])

\* C22: in the list being built by the Classifier, in the list it hands to
\* the Validator, in the list after the operational-impact pass, in the
\* list dedup builds, in the lists that enter and leave the volume cap and
\* in the returned list, a record has severity MINOR exactly if its type
\* is not TRUE_CHANGE, and a TRUE_CHANGE has severity CRITICAL or MODERATE.
C22_TypeSeverity ==
    /\ EveryTypeSeverity(changes)
    /\ EveryTypeSeverity(classified)
    /\ EveryTypeSeverity(deduped)
    /\ EveryTypeSeverity(cap_input)
    /\ EveryTypeSeverity(validated)
    /\ EveryTypeSeverity(result)
    /\ EveryTypeSeverity(first_result)

\* the volume cap has relabelled a CRITICAL TRUE_CHANGE and kept another,
\* next to a NOISE record
C22_Witness ==
    /\ pc = "filter"
    /\ Len(validated) = Len(cap_input)
    /\ \E k \in 1..Len(validated) :
          /\ cap_input[k].type = "TRUE_CHANGE"
          /\ cap_input[k].severity = "CRITICAL"
          /\ validated[k].type = "SEMANTIC_MINOR"
          /\ validated[k].severity = "MINOR"
    /\ \E k \in 1..Len(validated) : validated[k].type = "TRUE_CHANGE"
    /\ \E k \in 1..Len(validated) : validated[k].type = "NOISE"

(***************************************************************************)
(* Validator: dedup as a whole                                              *)
(***************************************************************************)
\* _dedupe_by_topic (lines 511-543) applied to list: the kept records after
\* the records from position i on, acc being the kept records before them
RECURSIVE DedupeFrom(_, _, _)
DedupeFrom(list, i, acc) ==
    IF i > Len(list) THEN acc ELSE DedupeFrom(list, i + 1, DedupeOne(acc, list[i]))

\* the loop of _dedupe_by_topic has visited every record of its argument
\* changes and is about to return deduped
DedupeReturns == pc = "dedupe" /\ idx > Len(changes)

ChangeIds(list) == <<>> \o [k \in 1..Len(list) |-> list[k].change_id]

IsKept(ch) == \E k \in 1..Len(deduped) : deduped[k].change_id = ch.change_id

\* the records of list that _dedupe_by_topic kept
KeptOf(list) == SelectSeq(list, IsKept)

\* every record of list that was not kept satisfies the merge condition
\* with a kept record that precedes it in list
MergedIntoEarlier(list) ==
    \A j \in 1..Len(list) :
        ~IsKept(list[j]) =>
            \E i \in 1..(j - 1) : IsKept(list[i]) /\ MergeCondition(list[j], list[i])

MergedAndKept ==
    /\ DedupeReturns
    /\ Len(changes) >= Len(deduped) + 2
    /\ \E i, j \in 1..Len(deduped) :
          /\ i < j
          /\ deduped[i].type = deduped[j].type
          /\ deduped[i].subtype = deduped[j].subtype
=============================================================================
